---- MODULE Spec2Model ----
(***************************************************************************)
(* Verification model of filtermail, a before-queue SMTP filter.           *)
(*                                                                         *)
(* Specifications:                                                         *)
(*   SpecPgp   the OpenPGP packet scanner (src/openpgp.rs)                 *)
(***************************************************************************)
EXTENDS Integers, Sequences, FiniteSets, TLC

VARIABLES
    payload,       \* openpgp.rs: the byte slice handed to check_openpgp_payload
    pgp_result,    \* openpgp.rs: its Result<bool, Error>, "none" before the call
    mail,          \* message.rs: the mailparse::ParsedMail under test
    gate_call,     \* message.rs: the predicate applied to mail, with its flag
    gate_result,   \* message.rs: the bool it returned
    envelope,      \* smtp_server.rs: the session's Envelope
    fs,            \* config.rs: the paths that exist below mailboxes_dir
    verdict,       \* inbound.rs / outbound.rs: check_data's caller and Result
    address_timestamps, \* rate_limiter.rs: SendRateLimiter.address_timestamps
    now,           \* rate_limiter.rs: the reading of SystemTime::now(), seconds
    mutex,         \* outbound.rs: holder of the send_rate_limiter Mutex, 0 if free
    task,          \* smtp_server.rs: per connection task, its handle_mail call
    seq_limiter,   \* history: the limiter state of the run that is compared with
    checks,        \* history: the finished rate-limit checks, in order
    config,        \* main.rs: the mode argument and the Config in use
    pc,            \* smtp_server.rs: where handle_connection stands
    line,          \* smtp_server.rs: what the last read_line returned, if any
    out,           \* smtp_server.rs: the writes to the client since the last read
    data,          \* smtp_server.rs: the local data of the DATA branch
    rx_lines,      \* history: the lines received since the 354 reply
    handed,        \* history: the envelope handed to handle_data
    client,        \* smtp_client.rs: the reinjection in progress
    server         \* main.rs: the process, serving or gone with its exit code

pgpVars == <<payload, pgp_result>>
gateVars == <<mail, gate_call, gate_result>>
policyVars == <<envelope, fs, verdict>>
rateVars == <<address_timestamps, now, mutex, task, seq_limiter, checks>>
smtpVars == <<config, pc, line, out, data, rx_lines, handed, client>>

vars == <<payload, pgp_result, mail, gate_call, gate_result,
          envelope, fs, verdict,
          address_timestamps, now, mutex, task, seq_limiter, checks,
          config, pc, line, out, data, rx_lines, handed, client, server>>

\* What the actions of each specification leave alone.
pgpFrame == <<gateVars, policyVars, rateVars, smtpVars, server>>
gateFrame == <<pgpVars, policyVars, rateVars, smtpVars, server>>
policyFrame == <<pgpVars, gate_call, gate_result, rateVars, smtpVars, server>>
rateFrame == <<pgpVars, gateVars, policyVars, smtpVars, server>>
smtpFrame == <<pgpVars, gateVars, mutex, task, seq_limiter, server>>

(***************************************************************************)
(* Bounds of the model                                                     *)
(***************************************************************************)
MaxPayloadLen == 4     \* a payload of this length is not extended further
MaxParts == 3          \* direct sub-parts of a message
MaxRcpts == 2          \* recipients of an envelope
MaxChecks == 4         \* rate-limit checks in one behaviour
MaxMessageSize == 5    \* max_message_size of the Config in use, in bytes
MaxSends == 5          \* rate-limit checks in one behaviour of SpecGc
NumTasks == 2          \* connection tasks that call handle_mail concurrently

(***************************************************************************)
(* OpenPGP packet scanner, src/openpgp.rs                                  *)
(***************************************************************************)
\* The byte values the payloads are built from:
\*   0, 1      one-octet lengths, and first bytes that are not new-format
\*   193, 195  0xC1 / 0xC3: PKESK / SKESK headers; as length: two-octet prefix
\*   210       0xD2: SEIPD header; as length: two-octet prefix
\*   224       partial body length of 1 << 0; as header: tag 32
\*   254       partial body length of 1 << 30, the largest
\*   255       five-octet length prefix; as header: tag 63
PayloadBytes == {0, 1, 193, 195, 210, 224, 254, 255}
\* Lengths of the zero runs: the two-octet body length with prefix 193, 0,
\* and one byte less and more.
RunLens == {447, 448, 449}

TruncatedHeader == "TruncatedHeader"

RECURSIVE Pow2(_)
Pow2(n) == IF n = 0 THEN 1 ELSE 2 * Pow2(n - 1)

\* Variant: an index beyond the payload reads as a zero byte.
get_byte_or_zero(p, idx) == IF idx < Len(p) THEN p[idx + 1] ELSE 0

\* get_byte!: the byte at 0-based index idx, or -1 where the macro returns
\* Err(TruncatedHeader) from the enclosing function.
get_byte(p, idx) == IF idx < Len(p) THEN p[idx + 1] ELSE -1

\* The partial-body-length loop (lines 37..41): the cursor after the loop,
\* or -1 when a get_byte! of the loop condition is out of range.
RECURSIVE skip_partial(_, _)
skip_partial(p, i) ==
    IF get_byte(p, i) = -1 THEN -1
    ELSE IF get_byte(p, i) >= 224 /\ get_byte(p, i) < 255
         THEN skip_partial(p, i + 1 + Pow2(get_byte(p, i) % 32))
         ELSE i

\* Lines 56..59: the big-endian value of four bytes.  TLC integers are 32
\* bits wide where usize has 64, so a value of 2^30 or more is represented
\* by 2^30, which is beyond the end of every payload of the model.
be_u32(b1, b2, b3, b4) ==
    IF b1 >= 64 THEN 1073741824
    ELSE b1 * 16777216 + b2 * 65536 + b3 * 256 + b4

\* Variant: a one-octet length is used without stepping over it.
body_length_not_consumed(p, i) ==
    LET b == get_byte(p, i) IN
    IF b = -1 THEN [len |-> -1, octets |-> 0]
    ELSE IF b < 192 THEN [len |-> b, octets |-> 0]
    ELSE IF b < 224 THEN
        IF get_byte(p, i + 1) = -1 THEN [len |-> -1, octets |-> 0]
        ELSE [len |-> ((b - 192) * 256) + get_byte(p, i + 1) + 192, octets |-> 2]
    ELSE IF b = 255 THEN
        IF \E k \in 1..4 : get_byte(p, i + k) = -1 THEN [len |-> -1, octets |-> 0]
        ELSE [len |-> be_u32(get_byte(p, i + 1), get_byte(p, i + 2),
                             get_byte(p, i + 3), get_byte(p, i + 4)),
              octets |-> 5]
    ELSE [len |-> -2, octets |-> 0]

\* Lines 43..65: the final body length and the number of length octets read
\* at cursor i; len = -1 for TruncatedHeader, len = -2 for the "impossible"
\* branch.
body_length(p, i) ==
    LET b == get_byte(p, i) IN
    IF b = -1 THEN [len |-> -1, octets |-> 0]
    ELSE IF b < 192 THEN [len |-> b, octets |-> 1]
    ELSE IF b < 224 THEN
        IF get_byte(p, i + 1) = -1 THEN [len |-> -1, octets |-> 0]
        ELSE [len |-> ((b - 192) * 256) + get_byte(p, i + 1) + 192, octets |-> 2]
    ELSE IF b = 255 THEN
        IF \E k \in 1..4 : get_byte(p, i + k) = -1 THEN [len |-> -1, octets |-> 0]
        ELSE [len |-> be_u32(get_byte(p, i + 1), get_byte(p, i + 2),
                             get_byte(p, i + 3), get_byte(p, i + 4)),
              octets |-> 5]
    ELSE [len |-> -2, octets |-> 0]

\* Line 29: the first byte has both high bits set (new packet format).
is_new_format(b) == (b \div 64) = 3

\* Variant: the last packet may be any of the three allowed packets.
last_packet_ok_any(packet_type_id) == packet_type_id \in {1, 3, 18}
\* Line 75: the packet that ends exactly at the end of the payload.
last_packet_ok(packet_type_id) == packet_type_id = 18

\* Line 76: a packet followed by more bytes.
inner_packet_ok(packet_type_id) == packet_type_id \in {1, 3}

\* The outer loop (lines 27..86) from cursor i.
RECURSIVE scan_from(_, _)
scan_from(p, i) ==
    IF ~(i < Len(p)) THEN "false"
    ELSE IF ~is_new_format(get_byte(p, i)) THEN "false"
    ELSE LET packet_type_id == get_byte(p, i) % 64
             j == skip_partial(p, i + 1)
         IN  IF j = -1 THEN TruncatedHeader
             ELSE LET bl == body_length(p, j) IN
                  IF bl.len = -1 THEN TruncatedHeader
                  ELSE IF bl.len = -2 THEN "false"
                  ELSE LET i2 == j + bl.octets + bl.len IN
                       IF i2 = Len(p)
                       THEN (IF last_packet_ok(packet_type_id) THEN "true" ELSE "false")
                       ELSE IF ~inner_packet_ok(packet_type_id) THEN "false"
                       ELSE scan_from(p, i2)

check_openpgp_payload(p) == scan_from(p, 0)

\* The values of the cursor each time the condition of the partial-length
\* loop (line 37) is evaluated, from cursor i on.
RECURSIVE partial_heads(_, _)
partial_heads(p, i) ==
    IF get_byte(p, i) # -1 /\ get_byte(p, i) >= 224 /\ get_byte(p, i) < 255
    THEN <<i>> \o partial_heads(p, i + 1 + Pow2(get_byte(p, i) % 32))
    ELSE <<i>>

\* The indices that lines 43..59 hand to get_byte! at cursor i, up to the
\* first one that is out of range.
length_indices(p, i) ==
    LET b == get_byte(p, i) IN
    IF b >= 192 /\ b < 224 THEN {i, i + 1}
    ELSE IF b = 255
         THEN {i} \cup {i + k : k \in {n \in 1..4 :
                          \A m \in 1..(n - 1) : get_byte(p, i + m) # -1}}
    ELSE {i}

\* The run of check_openpgp_payload from cursor i: the values of the cursor
\* at the head of each iteration of the two loops, in order, and the
\* indices handed to get_byte!.
RECURSIVE scan_run(_, _)
scan_run(p, i) ==
    IF ~(i < Len(p)) THEN [cursors |-> <<i>>, indices |-> {}]
    ELSE IF ~is_new_format(get_byte(p, i)) THEN [cursors |-> <<i>>, indices |-> {i}]
    ELSE LET packet_type_id == get_byte(p, i) % 64
             heads == partial_heads(p, i + 1)
             j == skip_partial(p, i + 1)
             here == [cursors |-> <<i>> \o heads,
                      indices |-> {i} \cup {heads[k] : k \in 1..Len(heads)}]
         IN  IF j = -1 THEN here
             ELSE LET bl == body_length(p, j)
                      read == [here EXCEPT !.indices = @ \cup length_indices(p, j)]
                  IN  IF bl.len < 0 THEN read
                      ELSE LET i2 == j + bl.octets + bl.len
                               rest == IF i2 # Len(p) /\ inner_packet_ok(packet_type_id)
                                       THEN scan_run(p, i2)
                                       ELSE [cursors |-> <<i2>>, indices |-> {}]
                           IN  [cursors |-> read.cursors \o rest.cursors,
                                indices |-> read.indices \cup rest.indices]

(***************************************************************************)
(* Strings.  A string is a sequence of tokens; a token is a single         *)
(* character ("\r", "=", "u") or a literal that the code only ever treats  *)
(* as a whole ("-----BEGIN PGP MESSAGE-----", "Version: ", "MAIL FROM:").  *)
(***************************************************************************)
None == [some |-> FALSE]
Some(v) == [some |-> TRUE, val |-> v]

CR == "\r"
LF == "\n"
CRLF == <<CR, LF>>

starts_with(s, pre) ==
    Len(s) >= Len(pre) /\ SubSeq(s, 1, Len(pre)) = pre

ends_with(s, suf) ==
    Len(s) >= Len(suf) /\ SubSeq(s, Len(s) - Len(suf) + 1, Len(s)) = suf

strip_prefix(s, pre) ==
    IF starts_with(s, pre) THEN Some(SubSeq(s, Len(pre) + 1, Len(s))) ELSE None

strip_suffix(s, suf) ==
    IF ends_with(s, suf) THEN Some(SubSeq(s, 1, Len(s) - Len(suf))) ELSE None

RECURSIVE trim_end_matches(_, _)
trim_end_matches(s, pat) ==
    IF ends_with(s, pat)
    THEN trim_end_matches(SubSeq(s, 1, Len(s) - Len(pat)), pat)
    ELSE s

RECURSIVE trim_start_matches(_, _)
trim_start_matches(s, pat) ==
    IF starts_with(s, pat)
    THEN trim_start_matches(SubSeq(s, Len(pat) + 1, Len(s)), pat)
    ELSE s

\* Start indexes at which pat occurs in s.
Occurrences(s, pat) ==
    {i \in 1..(Len(s) - Len(pat) + 1) : SubSeq(s, i, i + Len(pat) - 1) = pat}

Min(S) == CHOOSE x \in S : \A y \in S : x <= y
Max(S) == CHOOSE x \in S : \A y \in S : x >= y

\* str::split_once: the parts left and right of the first occurrence.
split_once(s, pat) ==
    IF Occurrences(s, pat) = {} THEN None
    ELSE LET i == Min(Occurrences(s, pat)) IN
         Some([left |-> SubSeq(s, 1, i - 1),
               right |-> SubSeq(s, i + Len(pat), Len(s))])

\* str::rsplit_once: the parts left and right of the last occurrence.
rsplit_once(s, pat) ==
    IF Occurrences(s, pat) = {} THEN None
    ELSE LET i == Max(Occurrences(s, pat)) IN
         Some([left |-> SubSeq(s, 1, i - 1),
               right |-> SubSeq(s, i + Len(pat), Len(s))])

\* str::replace(chars, ""): s without the tokens in chars.
remove_chars(s, chars) == SelectSeq(s, LAMBDA c : c \notin chars)

Whitespace == {" ", "\t", CR, LF}

RECURSIVE trim_start(_)
trim_start(s) ==
    IF s # <<>> /\ Head(s) \in Whitespace THEN trim_start(Tail(s)) ELSE s

RECURSIVE trim_end(_)
trim_end(s) ==
    IF s # <<>> /\ s[Len(s)] \in Whitespace
    THEN trim_end(SubSeq(s, 1, Len(s) - 1))
    ELSE s

trim(s) == trim_end(trim_start(s))

(***************************************************************************)
(* Base64 (the base64 crate's STANDARD engine, used at openpgp.rs:128)     *)
(***************************************************************************)
B64Alphabet ==
    << "A", "B", "C", "D", "E", "F", "G", "H", "I", "J", "K", "L", "M",
       "N", "O", "P", "Q", "R", "S", "T", "U", "V", "W", "X", "Y", "Z",
       "a", "b", "c", "d", "e", "f", "g", "h", "i", "j", "k", "l", "m",
       "n", "o", "p", "q", "r", "s", "t", "u", "v", "w", "x", "y", "z",
       "0", "1", "2", "3", "4", "5", "6", "7", "8", "9", "+", "/" >>

IsB64Char(c) == \E i \in 1..64 : B64Alphabet[i] = c
B64Val(c) == (CHOOSE i \in 1..64 : B64Alphabet[i] = c) - 1

\* The bytes of a run of complete 4-symbol groups.
RECURSIVE b64_groups(_)
b64_groups(v) ==
    IF Len(v) < 4 THEN <<>>
    ELSE << v[1] * 4 + (v[2] \div 16),
            (v[2] % 16) * 16 + (v[3] \div 4),
            (v[3] % 4) * 64 + v[4] >> \o b64_groups(SubSeq(v, 5, Len(v)))

\* STANDARD.decode: canonical padding is required, the unused low bits of
\* the last symbol must be zero, and every other token is an error.
base64_decode(s) ==
    LET pads == IF ends_with(s, <<"=", "=">>) THEN 2
                ELSE IF ends_with(s, <<"=">>) THEN 1 ELSE 0
        sym == SubSeq(s, 1, Len(s) - pads)
        n == Len(sym)
        v == [i \in 1..n |-> B64Val(sym[i])]
        full == b64_groups(SubSeq(v, 1, n - (n % 4)))
    IN  IF \E i \in 1..n : ~IsB64Char(sym[i]) THEN None
        ELSE IF n % 4 = 0 THEN (IF pads = 0 THEN Some(full) ELSE None)
        ELSE IF n % 4 = 1 THEN None
        ELSE IF n % 4 = 2 THEN
            IF pads = 2 /\ v[n] % 16 = 0
            THEN Some(full \o << v[n - 1] * 4 + (v[n] \div 16) >>)
            ELSE None
        ELSE
            IF pads = 1 /\ v[n] % 4 = 0
            THEN Some(full \o << v[n - 2] * 4 + (v[n - 1] \div 16),
                                 (v[n - 1] % 16) * 16 + (v[n] \div 4) >>)
            ELSE None

(***************************************************************************)
(* Armor decoder, src/openpgp.rs                                           *)
(***************************************************************************)
BEGIN_LINE == "-----BEGIN PGP MESSAGE-----"
PREFIX == <<BEGIN_LINE, CR, LF>>
SUFFIX == <<"-----END PGP MESSAGE-----">>
VERSION_COMMENT == <<"Version: ">>

\* Variant: the comment line is removed whatever the direction.
strip_comment_always(s, outgoing) ==
    IF starts_with(s, VERSION_COMMENT) /\ split_once(s, CRLF).some
    THEN Some(split_once(s, CRLF).val.right)
    ELSE Some(s)

\* Lines 107..118: None is the early return for a comment in an outgoing
\* message; otherwise the text with the comment line removed.
strip_comment(s, outgoing) ==
    IF starts_with(s, VERSION_COMMENT)
    THEN IF outgoing THEN None
         ELSE IF split_once(s, CRLF).some
              THEN Some(split_once(s, CRLF).val.right)
              ELSE Some(s)
    ELSE Some(s)

\* Lines 122..125.
remove_crc24(s) ==
    IF rsplit_once(s, <<"=">>).some THEN rsplit_once(s, <<"=">>).val.left ELSE s

check_armored_payload(armored, outgoing) ==
    LET p1 == strip_prefix(armored, PREFIX) IN
    IF ~p1.some THEN FALSE
    ELSE LET p2 == strip_suffix(trim_end_matches(p1.val, CRLF), SUFFIX) IN
    IF ~p2.some THEN FALSE
    ELSE LET p3 == strip_comment(p2.val, outgoing) IN
    IF ~p3.some THEN FALSE
    ELSE LET p4 == remove_crc24(trim_start_matches(p3.val, CRLF))
             p5 == remove_chars(p4, {CR, LF})
             decoded == base64_decode(p5)
         IN  IF ~decoded.some THEN FALSE
             ELSE check_openpgp_payload(decoded.val) = "true"

(***************************************************************************)
(* MIME gate, src/message.rs                                               *)
(*                                                                         *)
(* A ParsedMail is [mimetype, headers, subparts]; headers maps a header    *)
(* name to the Option that get_first_value returns.  A direct sub-part is  *)
(* [mimetype, has_subparts, body] with body the Result of get_body (None   *)
(* for Err).  mailparse stores mimetype in lower case.                     *)
(***************************************************************************)
\* str::to_lowercase on the tokens that have upper-case letters.
LowerToken(t) ==
    CASE t = "Secure-Join: vc-request" -> "secure-join: vc-request"
      [] t = "Secure-Join: vg-request" -> "secure-join: vg-request"
      [] t = "MAILER-DAEMON" -> "mailer-daemon"
      [] t = "Mailer-Daemon" -> "mailer-daemon"
      [] t = "MAIL FROM:" -> "mail from:"
      [] t = "RCPT TO:" -> "rcpt to:"
      [] t = "SIZE" -> "size"
      [] t = "U" -> "u"
      [] OTHER -> t

to_lowercase(s) == [i \in 1..Len(s) |-> LowerToken(s[i])]

get_first_value(m, name) == m.headers[name]

\* Line 11.
secure_join_value_ok(v) == v = <<"vc-request">> \/ v = <<"vg-request">>

is_securejoin(m) ==
    LET secure_join == get_first_value(m, "Secure-Join") IN
    IF ~secure_join.some THEN FALSE
    ELSE IF ~secure_join_value_ok(secure_join.val) THEN FALSE
    ELSE IF m.subparts = <<>> THEN FALSE
    ELSE IF Len(m.subparts) # 1 THEN FALSE
    ELSE LET part == m.subparts[1] IN
         IF part.has_subparts THEN FALSE
         ELSE IF part.mimetype # "text/plain" THEN FALSE
         ELSE IF ~part.body.some THEN FALSE
         ELSE LET text == to_lowercase(trim(part.body.val)) IN
              \/ text = <<"secure-join: vc-request">>
              \/ text = <<"secure-join: vg-request">>

\* Variant: the part at index 0 is not looked at.
first_part_ok_any(part) == TRUE

\* Lines 74..102: the checks on the part at index 0.
first_part_ok(part) ==
    /\ part.mimetype = "application/pgp-encrypted"
    /\ part.body.some
    /\ trim(part.body.val) = <<"Version: 1">>

\* Lines 103..124: the checks on the part at index 1.
second_part_ok(part, outgoing) ==
    /\ part.mimetype = "application/octet-stream"
    /\ part.body.some
    /\ check_armored_payload(part.body.val, outgoing)

\* Lines 67..129: the loop body for the part at index part_idx (0-based);
\* FALSE is "return false", TRUE is "go on to the next part".
part_ok(part_idx, part, outgoing) ==
    IF part.has_subparts THEN FALSE
    ELSE IF part_idx = 0 THEN first_part_ok(part)
    ELSE IF part_idx = 1 THEN second_part_ok(part, outgoing)
    ELSE FALSE

check_encrypted(m, outgoing) ==
    IF m.subparts = <<>> THEN FALSE
    ELSE IF m.mimetype # "multipart/encrypted" THEN FALSE
    ELSE \A k \in 1..Len(m.subparts) : part_ok(k - 1, m.subparts[k], outgoing)

(***************************************************************************)
(* Address extraction, src/utils.rs                                        *)
(***************************************************************************)
\* mailparse::addrparse followed by the choice of the first mailbox (lines
\* 26..32), on the inputs of the model: an angle-bracketed mailbox with an
\* optional display name before it, or a bare mailbox; the empty string
\* parses to an empty list and a bare word without "@" is an error.
first_mailbox(s) ==
    LET t == trim(s)
        open == Occurrences(t, <<"<">>)
        close == Occurrences(t, <<">">>)
    IN  IF t = <<>> THEN None
        ELSE IF open # {} /\ close # {} /\ Min(open) < Min(close)
             THEN Some(SubSeq(t, Min(open) + 1, Min(close) - 1))
        ELSE IF open = {} /\ close = {} /\ Occurrences(t, <<"@">>) # {}
             THEN Some(t)
        ELSE None

\* Lines 15..24: what is left of the first "=", cut back to the last space.
cut_parameters(s) ==
    IF split_once(s, <<"=">>).some
    THEN LET address_raw == split_once(s, <<"=">>).val.left IN
         trim(IF rsplit_once(address_raw, <<" ">>).some
              THEN rsplit_once(address_raw, <<" ">>).val.left
              ELSE address_raw)
    ELSE s

extract_address(input) ==
    LET input_lower == to_lowercase(input)
        trimmed == trim_start_matches(
                       trim_start_matches(input_lower, <<"mail from:">>),
                       <<"rcpt to:">>)
    IN  first_mailbox(cut_parameters(trimmed))

(***************************************************************************)
(* Configuration, src/config.rs.  fs is the set of paths that exist below  *)
(* mailboxes_dir, each a sequence of path components.                      *)
(***************************************************************************)
contains(s, c) == \E i \in 1..Len(s) : s[i] = c

\* Path::exists for <mailboxes_dir>/<addr>/enforceE2EEincoming.
enforce_e2ee_exists(files, addr) == <<addr, "enforceE2EEincoming">> \in files

is_cleartext_ok(files, addr) ==
    IF addr = <<>> \/ ~contains(addr, "@") \/ contains(addr, "/")
    THEN FALSE
    ELSE ~enforce_e2ee_exists(files, addr)

(***************************************************************************)
(* Incoming policy, src/inbound.rs.  A Result<(), String> is Ok or         *)
(* Err(reply): the reply is a string whose first token is its code.        *)
(***************************************************************************)
Ok == [ok |-> TRUE]
Err(e) == [ok |-> FALSE, err |-> e]

ENCRYPTION_NEEDED_523 == <<"523", " Encryption Needed: Invalid Unencrypted Mail">>
\* parse_mail's Err, in the shape of a ParsedMail so that it compares.
ParseError == [mimetype |-> "ParseError", headers |-> [h \in {} |-> 0], subparts |-> <<>>]
FailedToParse == <<"500", " Failed to parse message: ", "reason">>

\* Variant: the exception without the test of the top-level type.
is_mailer_daemon_any_type(m) ==
    LET auto_submitted == get_first_value(m, "Auto-Submitted") IN
    IF auto_submitted.some /\ auto_submitted.val # <<>>
    THEN LET from_header ==
                 trim(IF get_first_value(m, "From").some
                      THEN get_first_value(m, "From").val ELSE <<>>)
             from_addr == extract_address(from_header)
         IN  /\ from_addr.some
             /\ starts_with(to_lowercase(from_addr.val), <<"mailer-daemon", "@">>)
    ELSE FALSE

\* Lines 55..71: the mailer-daemon exception.
is_mailer_daemon_report(m) ==
    LET auto_submitted == get_first_value(m, "Auto-Submitted") IN
    IF auto_submitted.some /\ auto_submitted.val # <<>>
    THEN LET from_header ==
                 trim(IF get_first_value(m, "From").some
                      THEN get_first_value(m, "From").val ELSE <<>>)
             from_addr == extract_address(from_header)
         IN  /\ from_addr.some
             /\ starts_with(to_lowercase(from_addr.val), <<"mailer-daemon", "@">>)
             /\ m.mimetype = "multipart/report"
    ELSE FALSE

\* Lines 73..78.
all_recipients_cleartext_ok(files, rcpt_to) ==
    \A k \in 1..Len(rcpt_to) : is_cleartext_ok(files, rcpt_to[k])

incoming_check_data(files, env, parsed) ==
    IF parsed = ParseError THEN Err(FailedToParse)
    ELSE IF check_encrypted(parsed, FALSE) \/ is_securejoin(parsed) THEN Ok
    ELSE IF is_mailer_daemon_report(parsed) THEN Ok
    ELSE IF ~all_recipients_cleartext_ok(files, env.rcpt_to)
         THEN Err(ENCRYPTION_NEEDED_523)
    ELSE Ok

(***************************************************************************)
(* Rate limiter, src/rate_limiter.rs.  The limiter state is a function     *)
(* from the tracked addresses to their send times, oldest first.           *)
(***************************************************************************)
ONE_MINUTE == 60
max_user_send_per_minute == 2

\* SystemTime::elapsed().unwrap_or_default(): zero when t is in the future.
elapsed(t, clock) == IF clock >= t THEN clock - t ELSE 0

\* Variant: drop every address that has not sent in this very second.
retain_recent_keys_eager(ats, clock) ==
    [k \in {a \in DOMAIN ats :
               ats[a] # <<>> /\ elapsed(ats[a][Len(ats[a])], clock) <= 0}
       |-> ats[k]]

\* Lines 16..21: drop the addresses whose last send is over a minute old.
retain_recent_keys(ats, clock) ==
    [k \in {a \in DOMAIN ats :
               ats[a] # <<>> /\ elapsed(ats[a][Len(ats[a])], clock) <= ONE_MINUTE}
       |-> ats[k]]

\* Lines 23..26: HashMap::entry(..).or_default().
entry_or_default(ats, key) ==
    [k \in DOMAIN ats \cup {key} |-> IF k \in DOMAIN ats THEN ats[k] ELSE <<>>]

\* Line 27: forget the sends of key that are over a minute old.
retain_recent_sends(sends, clock) ==
    SelectSeq(sends, LAMBDA t : elapsed(t, clock) <= ONE_MINUTE)

\* Lines 16..27: the state when the length of the entry is compared.
limiter_prepare(ats, clock, key) ==
    LET kept == entry_or_default(retain_recent_keys(ats, clock), key) IN
    [kept EXCEPT ![key] = retain_recent_sends(kept[key], clock)]

\* Line 28: the comparison that allows a send.
within_limit(len, max_send_per_minute) == len <= max_send_per_minute

\* Line 29.
limiter_push(ats, clock, key) == [ats EXCEPT ![key] = Append(ats[key], clock)]

\* The whole method: the bool it returns and the state it leaves.
is_sending_allowed(ats, clock, mail_from, max_send_per_minute) ==
    LET prepared == limiter_prepare(ats, clock, mail_from) IN
    IF within_limit(Len(prepared[mail_from]), max_send_per_minute)
    THEN [allowed |-> TRUE, state |-> limiter_push(prepared, clock, mail_from)]
    ELSE [allowed |-> FALSE, state |-> prepared]

\* Lines 23..33 alone, on a limiter whose retain pass over the addresses
\* (lines 16..21) is left out: no address is ever dropped.
is_sending_allowed_keeping_keys(ats, clock, mail_from, max_send_per_minute) ==
    LET kept == entry_or_default(ats, mail_from)
        prepared == [kept EXCEPT ![mail_from] = retain_recent_sends(kept[mail_from], clock)]
    IN  IF within_limit(Len(prepared[mail_from]), max_send_per_minute)
        THEN [allowed |-> TRUE, state |-> limiter_push(prepared, clock, mail_from)]
        ELSE [allowed |-> FALSE, state |-> prepared]

(***************************************************************************)
(* Outgoing handle_mail, src/outbound.rs                                   *)
(***************************************************************************)
\* Lines 36..39: address.split('@') yields exactly two parts.
has_two_parts(address) == Cardinality(Occurrences(address, <<"@">>)) = 1

InvalidFromAddress(address) ==
    <<"500", " Invalid from address ", "<">> \o address \o <<">">>
TooMuchMail(address) ==
    <<"450", " 4.7.1: Too much mail from ", "<">> \o address
        \o <<">", ",", " rate limited until: ", "later">>

\* Lines 33..61, run without interruption: the Result and the limiter state.
outgoing_handle_mail(ats, clock, address) ==
    IF ~has_two_parts(address)
    THEN [res |-> Err(InvalidFromAddress(address)), state |-> ats]
    ELSE LET r == is_sending_allowed(ats, clock, address, max_user_send_per_minute) IN
         IF ~r.allowed
         THEN [res |-> Err(TooMuchMail(address)), state |-> r.state]
         ELSE [res |-> Ok, state |-> retain_recent_keys(r.state, clock)]

(***************************************************************************)
(* Outgoing check_data, src/outbound.rs, with                              *)
(* recipient_matches_passthrough of src/message.rs.  cfg is the Config.    *)
(***************************************************************************)
\* Variant: a pattern that starts with "@" matches every recipient whose
\* domain ends with the pattern's domain.
recipient_matches_domain_suffix(recipient, passthrough_recipients) ==
    \E k \in 1..Len(passthrough_recipients) :
        LET addr == passthrough_recipients[k] IN
        \/ recipient = addr
        \/ starts_with(addr, <<"@">>) /\ ends_with(recipient, Tail(addr))

recipient_matches_passthrough(recipient, passthrough_recipients) ==
    \E k \in 1..Len(passthrough_recipients) :
        LET addr == passthrough_recipients[k] IN
        \/ recipient = addr
        \/ starts_with(addr, <<"@">>) /\ ends_with(recipient, addr)

\* Variant: every From mailbox passes for every sender.
eq_whatever(a, b) == TRUE
eq_ignore_ascii_case(a, b) == to_lowercase(a) = to_lowercase(b)
unwrap_or_default(opt) == IF opt.some THEN opt.val ELSE <<>>

InvalidFromHeader(from_header) == <<"500", " Invalid FROM header: ">> \o from_header
InvalidFrom(from_addr, mail_from) ==
    <<"500", " Invalid FROM ", "<">> \o from_addr
        \o <<">", " for ", "<">> \o mail_from \o <<">">>

\* Lines 108..119: the self-sent Autocrypt Setup Message.
is_self_sent_setup_message(env, parsed) ==
    /\ Len(env.rcpt_to) = 1
    /\ env.rcpt_to[1] = env.mail_from
    /\ unwrap_or_default(get_first_value(parsed, "Subject")) = <<"Autocrypt Setup Message">>
    /\ parsed.mimetype = "multipart/mixed"

\* Lines 121..126.
all_recipients_passthrough(cfg, rcpt_to) ==
    \A k \in 1..Len(rcpt_to) :
        recipient_matches_passthrough(rcpt_to[k], cfg.passthrough_recipients)

outgoing_check_data(cfg, env, parsed) ==
    IF parsed = ParseError THEN Err(FailedToParse)
    ELSE LET from_header == trim(unwrap_or_default(get_first_value(parsed, "From")))
             from_addr == extract_address(from_header)
         IN  IF ~from_addr.some THEN Err(InvalidFromHeader(from_header))
             ELSE IF ~eq_ignore_ascii_case(env.mail_from, from_addr.val)
                  THEN Err(InvalidFrom(from_addr.val, env.mail_from))
             ELSE IF check_encrypted(parsed, TRUE) \/ is_securejoin(parsed) THEN Ok
             ELSE IF \E k \in 1..Len(cfg.passthrough_senders) :
                         cfg.passthrough_senders[k] = env.mail_from THEN Ok
             ELSE IF is_self_sent_setup_message(env, parsed) THEN Ok
             ELSE IF ~all_recipients_passthrough(cfg, env.rcpt_to)
                  THEN Err(ENCRYPTION_NEEDED_523)
             ELSE Ok

(***************************************************************************)
(* The handler in use, src/main.rs: the mode chooses the implementation    *)
(* of SmtpHandler.                                                         *)
(***************************************************************************)
\* Variant: the outgoing handler asks no limiter either.
handle_mail_unlimited(cfg, ats, clock, address) == [res |-> Ok, state |-> ats]
handle_mail(cfg, ats, clock, address) ==
    IF cfg.mode = "outgoing" THEN outgoing_handle_mail(ats, clock, address)
    ELSE [res |-> Ok, state |-> ats]

check_data(cfg, files, env, parsed) ==
    IF cfg.mode = "outgoing" THEN outgoing_check_data(cfg, env, parsed)
    ELSE incoming_check_data(files, env, parsed)

\* str::parse::<lettre::Address>: a user, one "@" and a domain.
is_address(a) ==
    /\ Cardinality(Occurrences(a, <<"@">>)) = 1
    /\ a[1] # "@" /\ a[Len(a)] # "@"

\* Variant: an envelope without recipients is taken as well formed.
reinject_envelope_any_list(env) ==
    IF ~is_address(env.mail_from)
    THEN Err(<<"Invalid from address: ", "reason">>)
    ELSE IF \E k \in 1..Len(env.rcpt_to) : ~is_address(env.rcpt_to[k])
         THEN Err(<<"Invalid to address: ", "reason">>)
    ELSE Ok

\* reinject_mail up to the transport (inbound.rs 90..104, outbound.rs
\* 138..152): the envelope the transport is given must be well formed.
reinject_envelope(env) ==
    IF ~is_address(env.mail_from)
    THEN Err(<<"Invalid from address: ", "reason">>)
    ELSE IF \E k \in 1..Len(env.rcpt_to) : ~is_address(env.rcpt_to[k])
         THEN Err(<<"Invalid to address: ", "reason">>)
    ELSE IF env.rcpt_to = <<>>
         THEN Err(<<"Failed to create envelope: ", "reason">>)
    ELSE Ok

\* The ? after check_data in handle_data (smtp_server.rs 32).
stops_handle_data_never(checked) == FALSE
stops_handle_data(checked) == ~checked.ok

(***************************************************************************)
(* Reinjection client, src/smtp_client.rs, and Error::smtp_response,       *)
(* src/error.rs.  A stage of the client is named by the context of the     *)
(* reply it waits for.                                                     *)
(***************************************************************************)
HELO_LINE == <<"HELO localhost", CR, LF>>
mail_from_line(env) == <<"MAIL FROM:", "<">> \o env.mail_from \o <<">", CR, LF>>
rcpt_to_line(rcpt) == <<"RCPT TO:", "<">> \o rcpt \o <<">", CR, LF>>
DATA_LINE == <<"DATA", CR, LF>>
END_OF_DATA == <<".", CR, LF>>

\* A line of the body that starts with "." gets a second "." (RFC 5321
\* 4.5.2), which send does not do.
RECURSIVE dot_stuffed(_, _)
dot_stuffed(bytes, at_line_start) ==
    IF bytes = <<>> THEN <<>>
    ELSE (IF at_line_start /\ bytes[1] = "." THEN <<".">> ELSE <<>>)
         \o <<bytes[1]>> \o dot_stuffed(Tail(bytes), bytes[1] = LF)
data_writes_stuffed(bytes) == <<dot_stuffed(bytes, TRUE), END_OF_DATA>>
\* Lines 69..70: the two writes that follow the 354 reply.
data_writes(bytes) == <<bytes, END_OF_DATA>>

expected_code(stage) ==
    CASE stage = "initial greeting" -> "220"
      [] stage = "DATA" -> "354"
      [] OTHER -> "250"

\* Variant: every line the peer sends counts as the expected reply.
response_ok_any(response, stage) == response # <<>>

\* Line 35.
response_ok(response, stage) == starts_with(response, <<expected_code(stage)>>)

MailSend(context, raw_smtp_answer) ==
    [kind |-> "MailSend", context |-> context, raw_smtp_answer |-> raw_smtp_answer]
Io == [kind |-> "Io", context |-> "", raw_smtp_answer |-> <<>>]

smtp_response(error) ==
    IF error.kind = "MailSend" THEN error.raw_smtp_answer
    ELSE <<"451", " Local error">>

(***************************************************************************)
(* SMTP server, src/smtp_server.rs                                         *)
(***************************************************************************)
GREETING == <<"220", " filtermail SMTP", CR, LF>>
REPLY_250 == <<"250", " OK", CR, LF>>
REPLY_354 == <<"354", " End data with <CR><LF>.<CR><LF>", CR, LF>>
REPLY_221 == <<"221", " OK", CR, LF>>
REPLY_552 == <<"552", " Message exceeds maximum size", CR, LF>>
INVALID_ADDRESS == <<"500", " Invalid address in MAIL FROM", CR, LF>>
NOT_RECOGNIZED == <<"500", " Command not recognized", CR, LF>>

\* format!("{}\r\n", e)
reply_line(e) == e \o CRLF

\* str::to_uppercase on the tokens that have lower-case letters.
UpperToken(t) ==
    CASE t = "helo" -> "HELO"
      [] t = "ehlo" -> "EHLO"
      [] t = "mail from:" -> "MAIL FROM:"
      [] t = "rcpt to:" -> "RCPT TO:"
      [] t = "data" -> "DATA"
      [] t = "quit" -> "QUIT"
      [] t = "rset" -> "RSET"
      [] t = "noop" -> "NOOP"
      [] t = "u" -> "U"
      [] OTHER -> t

to_uppercase(s) == [i \in 1..Len(s) |-> UpperToken(s[i])]

\* Line 96 with a lenient variant that also takes a bare LF.
command_of_lenient(read) ==
    IF strip_suffix(read, CRLF).some THEN strip_suffix(read, CRLF)
    ELSE strip_suffix(read, <<LF>>)
command_of(read) == strip_suffix(read, CRLF)

\* Lines 103..192: the branch that a command takes.
command_branch(cmd) ==
    LET upper == to_uppercase(cmd) IN
    CASE starts_with(upper, <<"HELO">>) \/ starts_with(upper, <<"EHLO">>) -> "HELO"
      [] starts_with(upper, <<"MAIL FROM:">>) -> "MAIL FROM:"
      [] starts_with(upper, <<"RCPT TO:">>) -> "RCPT TO:"
      [] starts_with(upper, <<"DATA">>) -> "DATA"
      [] starts_with(upper, <<"QUIT">>) -> "QUIT"
      [] starts_with(upper, <<"RSET">>) -> "RSET"
      [] starts_with(upper, <<"NOOP">>) -> "NOOP"
      [] OTHER -> "else"

\* Line 149 with the variant that also refuses the exact size.
exceeds_or_reaches(len, max_size) == len >= max_size
exceeds(len, max_size) == len > max_size

\* Variant: the line is stored with a bare LF for its CRLF.
extend_from_slice_lf(bytes, data_line) ==
    bytes \o SubSeq(data_line, 1, Len(data_line) - 2) \o <<LF>>

\* Line 147.
extend_from_slice(bytes, data_line) == bytes \o data_line

(***************************************************************************)
(* States in which a group of variables is not in use                      *)
(***************************************************************************)
HeaderNames == {"Secure-Join", "Auto-Submitted", "From", "Subject"}
NoHeaders == [h \in HeaderNames |-> None]
NoMail == [mimetype |-> "", headers |-> NoHeaders, subparts |-> <<>>]
NoCall == [fn |-> "none", outgoing |-> FALSE]
NoEnvelope == [mail_from |-> <<>>, rcpt_to |-> <<>>, data |-> <<>>]
NoVerdict == [fn |-> "none", res |-> Ok]
NoLimiter == [k \in {} |-> <<>>]
Tasks == 1..NumTasks
IdleTask == [pc |-> "idle", address |-> <<>>, len |-> 0, res |-> Ok, expect |-> Ok]
NoConfig ==
    [mode |-> "none", max_message_size |-> 0,
     passthrough_senders |-> <<>>, passthrough_recipients |-> <<>>]
\* answer is the line the last cmd!(read ..) of the client got.
NoClient ==
    [stage |-> "none", next_rcpt |-> 1, sent |-> <<>>, accepted |-> FALSE,
     answer |-> <<>>]

PgpIdle == payload = <<>> /\ pgp_result = "none"
GateIdle == mail = NoMail /\ gate_call = NoCall /\ gate_result = FALSE
PolicyIdle == envelope = NoEnvelope /\ fs = {} /\ verdict = NoVerdict
RateIdle ==
    /\ address_timestamps = NoLimiter /\ now = 0 /\ mutex = 0
    /\ task = [t \in Tasks |-> IdleTask]
    /\ seq_limiter = NoLimiter /\ checks = <<>>
SmtpIdle ==
    /\ config = NoConfig /\ pc = "closed" /\ line = None
    /\ out = <<>> /\ data = <<>> /\ rx_lines = <<>> /\ handed = NoEnvelope
    /\ client = NoClient
\* run_smtp_server has bound its listener and entered the serving loop.
Serving == server = "serving"

(***************************************************************************)
(* SpecRate: connection tasks call the outgoing handle_mail concurrently   *)
(* while the clock advances.  A call takes the lock, prepares the entry    *)
(* of its address (rate_limiter.rs 16..27), and then decides, pushes and   *)
(* returns, which drops the lock.                                          *)
(***************************************************************************)
\* The instants at which the clock is read, in seconds.
Instants == {0, 1, 60, 61}
Senders == { <<"u", "@", "x">>, <<"v", "@", "x">>, <<"u">> }

RateInit == RateIdle /\ PgpIdle /\ GateIdle /\ PolicyIdle /\ SmtpIdle /\ Serving

lock_available_always(holder) == TRUE
\* Mutex::lock returns only while no other task holds the guard.
lock_available(holder) == holder = 0

\* handle_mail up to the lock (outbound.rs 33..44).
HandleMailEnter(t, address) ==
    /\ task[t].pc = "idle"
    /\ Len(checks) + Cardinality({u \in Tasks : task[u].pc # "idle"}) < MaxChecks
    /\ IF ~has_two_parts(address)
       THEN /\ task' = [task EXCEPT ![t] = [IdleTask EXCEPT
                            !.address = address,
                            !.res = Err(InvalidFromAddress(address)),
                            !.expect = Err(InvalidFromAddress(address))]]
            /\ UNCHANGED <<mutex, checks>>
       ELSE /\ lock_available(mutex)
            /\ mutex' = t
            /\ task' = [task EXCEPT ![t] = [IdleTask EXCEPT
                            !.pc = "locked", !.address = address]]
            /\ UNCHANGED checks
    /\ UNCHANGED <<address_timestamps, now, seq_limiter, rateFrame>>

\* is_sending_allowed up to the comparison (rate_limiter.rs 16..27).  The
\* history runs the whole call on seq_limiter at this point.
LimiterPrepare(t) ==
    /\ task[t].pc = "locked"
    /\ LET prepared == limiter_prepare(address_timestamps, now, task[t].address)
           whole == outgoing_handle_mail(seq_limiter, now, task[t].address)
       IN  /\ address_timestamps' = prepared
           /\ seq_limiter' = whole.state
           /\ task' = [task EXCEPT ![t].pc = "prepared",
                                   ![t].len = Len(prepared[task[t].address]),
                                   ![t].expect = whole.res]
    /\ UNCHANGED <<now, mutex, checks, rateFrame>>

\* The comparison and the push (rate_limiter.rs 28..33), then the rest of
\* handle_mail (outbound.rs 45..60); returning drops the guard.
HandleMailReturn(t) ==
    /\ task[t].pc = "prepared"
    /\ LET address == task[t].address
           allowed == within_limit(task[t].len, max_user_send_per_minute)
       IN  /\ address_timestamps' =
                 IF allowed
                 THEN retain_recent_keys(
                          limiter_push(entry_or_default(address_timestamps, address),
                                       now, address), now)
                 ELSE address_timestamps
           /\ task' = [task EXCEPT ![t].pc = "idle",
                                   ![t].res = IF allowed THEN Ok
                                              ELSE Err(TooMuchMail(address))]
           /\ checks' = Append(checks, [address |-> address, at |-> now, ok |-> allowed])
    /\ mutex' = IF mutex = t THEN 0 ELSE mutex
    /\ UNCHANGED <<now, seq_limiter, rateFrame>>

\* Time passes; a call that holds the lock finishes within the second.
Advance(t) ==
    /\ t \in Instants /\ t > now
    /\ \A u \in Tasks : task[u].pc = "idle"
    /\ now' = t
    /\ UNCHANGED <<address_timestamps, mutex, task, seq_limiter, checks, rateFrame>>

RateNext ==
    \/ \E t \in Tasks, address \in Senders : HandleMailEnter(t, address)
    \/ \E t \in Tasks : LimiterPrepare(t)
    \/ \E t \in Tasks : HandleMailReturn(t)
    \/ \E t \in Instants : Advance(t)

SpecRate == RateInit /\ [][RateNext]_vars

(***************************************************************************)
(* SpecGc: the outgoing handle_mail is called again and again, one call    *)
(* at a time, while the clock advances; seq_limiter is a limiter that gets *)
(* the same calls and never drops an address.                              *)
(***************************************************************************)
GcSenders == { <<"u", "@", "x">>, <<"v", "@", "x">> }

\* One whole call of handle_mail (outbound.rs 33..61).
CheckKey(address) ==
    /\ Len(checks) < MaxSends
    /\ \A t \in Tasks : task[t].pc = "idle"
    /\ \E r \in {outgoing_handle_mail(address_timestamps, now, address)},
          kept \in {is_sending_allowed_keeping_keys(seq_limiter, now, address,
                                                    max_user_send_per_minute)} :
          /\ address_timestamps' = r.state
          /\ seq_limiter' = kept.state
          /\ checks' = Append(checks, [address |-> address, at |-> now,
                                       ok |-> r.res.ok, kept_ok |-> kept.allowed])
    /\ UNCHANGED <<now, mutex, task, rateFrame>>

GcNext ==
    \/ \E address \in GcSenders : CheckKey(address)
    \/ \E t \in Instants : Advance(t)

SpecGc == RateInit /\ [][GcNext]_vars

(***************************************************************************)
(* SpecGate: a parsed message is classified by one of the two predicates   *)
(***************************************************************************)

ArmorEnd == CRLF \o SUFFIX \o CRLF
\* SEIPD with a one-byte body, with CRC24 line.
ArmorValid ==
    PREFIX \o CRLF \o <<"0", "g", "E", "A">> \o CRLF
           \o <<"=", "a", "g", "R", "5">> \o ArmorEnd
\* PKESK then SEIPD, behind a Version comment.
ArmorComment ==
    PREFIX \o <<"Version: ", "1">> \o CRLF \o CRLF
           \o <<"w", "Q", "D", "S", "A", "A", "=", "=">> \o CRLF
           \o <<"=", "a", "g", "R", "5">> \o ArmorEnd
\* A lone PKESK.
ArmorInvalid ==
    PREFIX \o CRLF \o <<"w", "Q", "A", "=">> \o CRLF
           \o <<"=", "a", "g", "R", "5">> \o ArmorEnd
\* A single octet, the tag of a PKESK packet whose length is missing.
ArmorTruncated ==
    PREFIX \o CRLF \o <<"w", "Q", "=", "=">> \o CRLF
           \o <<"=", "a", "g", "R", "5">> \o ArmorEnd
\* A Version comment that is the last line before the END line: nothing
\* is left of the payload once the comment line is removed.
ArmorCommentInvalid ==
    PREFIX \o <<"Version: ", "w", "Q", "A", "=">> \o ArmorEnd

Part(mimetype, has_subparts, body) ==
    [mimetype |-> mimetype, has_subparts |-> has_subparts, body |-> body]

GateParts ==
    { Part("application/pgp-encrypted", FALSE, Some(<<"Version: 1", CR, LF>>)),
      Part("application/pgp-encrypted", FALSE, Some(<<"Version: 2">>)),
      Part("application/pgp-encrypted", TRUE, Some(<<"Version: 1">>)),
      Part("application/octet-stream", FALSE, Some(ArmorValid)),
      Part("application/octet-stream", FALSE, Some(ArmorComment)),
      Part("application/octet-stream", FALSE, Some(ArmorInvalid)),
      Part("application/octet-stream", FALSE, Some(ArmorCommentInvalid)),
      Part("text/plain", FALSE, Some(ArmorValid)),
      Part("text/plain", FALSE, Some(<<"Secure-Join: vc-request", CR, LF>>)),
      Part("text/plain", FALSE, None) }

PartSeqs(n) == UNION {[1..k -> GateParts] : k \in 0..n}

GateMails ==
    { [mimetype |-> t,
       headers |-> [NoHeaders EXCEPT !["Secure-Join"] = sj],
       subparts |-> ps] :
      t \in {"multipart/encrypted", "multipart/mixed"},
      sj \in {None, Some(<<"vc-request">>), Some(<<"vc-invite">>)},
      ps \in PartSeqs(MaxParts) }


GateInit ==
    /\ mail \in GateMails
    /\ gate_call = NoCall
    /\ gate_result = FALSE
    /\ PgpIdle /\ PolicyIdle /\ RateIdle /\ SmtpIdle /\ Serving

CheckEncrypted(outgoing) ==
    /\ gate_call = NoCall
    /\ gate_call' = [fn |-> "check_encrypted", outgoing |-> outgoing]
    /\ gate_result' = check_encrypted(mail, outgoing)
    /\ UNCHANGED <<mail, gateFrame>>

IsSecurejoin ==
    /\ gate_call = NoCall
    /\ gate_call' = [fn |-> "is_securejoin", outgoing |-> FALSE]
    /\ gate_result' = is_securejoin(mail)
    /\ UNCHANGED <<mail, gateFrame>>

GateNext ==
    \/ \E outgoing \in BOOLEAN : CheckEncrypted(outgoing)
    \/ IsSecurejoin

SpecGate == GateInit /\ [][GateNext]_vars

(***************************************************************************)
(* SpecPolicy: check_data decides about an envelope and its parsed data    *)
(***************************************************************************)
VersionPart == Part("application/pgp-encrypted", FALSE, Some(<<"Version: 1", CR, LF>>))
TextPart == Part("text/plain", FALSE, Some(<<"Secure-Join: vc-request", CR, LF>>))

\* The sub-part lists: none, an encrypted pair, an encrypted pair with an
\* armor comment, a pair whose payload is cut short, a single text part.
PolicySubparts ==
    { <<>>,
      <<VersionPart, Part("application/octet-stream", FALSE, Some(ArmorTruncated))>>,
      <<VersionPart, Part("application/octet-stream", FALSE, Some(ArmorValid))>>,
      <<VersionPart, Part("application/octet-stream", FALSE, Some(ArmorComment))>>,
      <<TextPart>> }

FromHeaders ==
    { None,
      Some(<<"Mailer-Daemon", "@", "x">>),
      Some(<<" ", "Mail Delivery", " ", "<", "MAILER-DAEMON", "@", "x", ">">>),
      Some(<<"u", "@", "x">>),
      Some(<<"mailer-daemon">>) }

PolicyMails ==
    { [mimetype |-> t,
       headers |-> [h \in HeaderNames |->
                      CASE h = "Secure-Join" -> sj
                        [] h = "Auto-Submitted" -> auto
                        [] h = "From" -> from
                        [] OTHER -> None],
       subparts |-> ps] :
      t \in {"multipart/encrypted", "multipart/report", "multipart/mixed"},
      sj \in {None, Some(<<"vc-request">>)},
      auto \in {None, Some(<<>>), Some(<<"auto-replied">>)},
      from \in FromHeaders,
      ps \in PolicySubparts }

\* Recipients: a mailbox, a mailbox that may enforce encryption, and two
\* that are no mailbox directory names.
Recipients == { <<"a", "@", "x">>, <<"s", "@", "x">>, <<"a", "/", "s", "@", "x">>, <<"s">> }
RcptLists(n) == UNION {[1..k -> Recipients] : k \in 0..n}

EnforceFile(addr) == <<addr, "enforceE2EEincoming">>
\* The path of the mailbox directory of addr, below mailboxes_dir.
MailboxDir(addr) == <<addr>>

PolicyInit ==
    /\ mail \in PolicyMails \cup {ParseError}
    /\ \E rcpts \in RcptLists(MaxRcpts) :
          envelope = [mail_from |-> <<"u", "@", "x">>, rcpt_to |-> rcpts, data |-> <<>>]
    /\ fs \in { {},
                 {MailboxDir(<<"a", "@", "x">>)},
                 {MailboxDir(<<"s", "@", "x">>), EnforceFile(<<"s", "@", "x">>)} }
    /\ verdict = NoVerdict
    /\ gate_call = NoCall /\ gate_result = FALSE
    /\ PgpIdle /\ RateIdle /\ SmtpIdle /\ Serving

IncomingCheckData ==
    /\ verdict = NoVerdict
    /\ verdict' = [fn |-> "incoming", res |-> incoming_check_data(fs, envelope, mail)]
    /\ UNCHANGED <<mail, envelope, fs, policyFrame>>

PolicyNext ==
    \/ IncomingCheckData

SpecPolicy == PolicyInit /\ [][PolicyNext]_vars

(***************************************************************************)
(* SpecOutgoing: the outgoing check_data decides about an envelope and     *)
(* its parsed data under a Config with passthrough lists                   *)
(***************************************************************************)
OutgoingFromHeaders ==
    { None,
      Some(<<"u", "@", "x">>),
      Some(<<"n", " ", "<", "U", "@", "x", ">", " ">>),
      Some(<<"v", "@", "x">>),
      Some(<<"nobody">>) }

OutgoingMails ==
    { [mimetype |-> t,
       headers |-> [h \in HeaderNames |->
                      CASE h = "Secure-Join" -> sj
                        [] h = "Subject" -> subject
                        [] h = "From" -> from
                        [] OTHER -> None],
       subparts |-> ps] :
      t \in {"multipart/encrypted", "multipart/mixed"},
      sj \in {None, Some(<<"vc-request">>)},
      subject \in {None, Some(<<"Autocrypt Setup Message">>)},
      from \in OutgoingFromHeaders,
      ps \in PolicySubparts }

\* Recipients: the sender itself, a listed address, and an address in a
\* sub-domain of a listed domain.
OutgoingRecipients ==
    { <<"u", "@", "x">>, <<"a", "@", "x">>, <<"b", "@", "sub.", "x">> }
OutgoingRcptLists(n) == UNION {[1..k -> OutgoingRecipients] : k \in 0..n}

OutgoingConfigs ==
    { [mode |-> "outgoing", max_message_size |-> MaxMessageSize,
       passthrough_senders |-> senders, passthrough_recipients |-> recipients] :
      senders \in {<<>>},
      recipients \in { <<>>, << <<"@", "x">> >>,
                       << <<"b", "@", "sub.", "x">>, <<"a", "@", "x">> >> } }
    \cup
    { [mode |-> "outgoing", max_message_size |-> MaxMessageSize,
       passthrough_senders |-> << <<"v", "@", "x">> >>,
       passthrough_recipients |-> <<>>] }

OutgoingInit ==
    /\ mail \in OutgoingMails \cup {ParseError}
    /\ \E from \in {<<"u", "@", "x">>, <<"v", "@", "x">>},
          rcpts \in OutgoingRcptLists(MaxRcpts) :
          envelope = [mail_from |-> from, rcpt_to |-> rcpts, data |-> <<>>]
    /\ config \in OutgoingConfigs
    /\ fs = {} /\ verdict = NoVerdict
    /\ gate_call = NoCall /\ gate_result = FALSE
    /\ pc = "closed" /\ line = None
    /\ out = <<>> /\ data = <<>> /\ rx_lines = <<>> /\ handed = NoEnvelope
    /\ client = NoClient
    /\ PgpIdle /\ RateIdle /\ Serving

OutgoingCheckData ==
    /\ config.mode = "outgoing"
    /\ verdict = NoVerdict
    /\ verdict' = [fn |-> "outgoing", res |-> outgoing_check_data(config, envelope, mail)]
    /\ UNCHANGED <<mail, envelope, fs, policyFrame>>

OutgoingNext ==
    \/ OutgoingCheckData

SpecOutgoing == OutgoingInit /\ [][OutgoingNext]_vars

(***************************************************************************)
(* SpecSmtp: the server accepts a connection, reads lines from it and      *)
(* answers them; after the end of DATA it checks the envelope and          *)
(* reinjects it to the peer, reply by reply.  One connection is served at  *)
(* a time.  parse_mail is not part of the sources: what it makes of the    *)
(* data is one of SessionMails.                                            *)
(***************************************************************************)
SmtpConfigs ==
    { [mode |-> "incoming", max_message_size |-> MaxMessageSize,
       passthrough_senders |-> <<>>, passthrough_recipients |-> <<>>],
      [mode |-> "outgoing", max_message_size |-> MaxMessageSize,
       passthrough_senders |-> << <<"v", "@", "x">> >>,
       passthrough_recipients |-> << <<"a", "@", "x">> >>] }

Commands ==
    { <<"HELO", " ", "x">>, <<"ehlo", " ", "x">>,
      <<"MAIL FROM:", "<", "u", "@", "x", ">">>,
      <<"mail from:", "<", "U", "@", "x", ">", " ", "SIZE", "=", "1">>,
      <<"MAIL FROM:", "<", "v", "@", "x", ">">>,
      <<"MAIL FROM:", "<", "u", "@", "x", "@", "y", ">">>,
      <<"MAIL FROM:">>,
      <<"RCPT TO:", "<", "a", "@", "x", ">">>,
      <<"RCPT TO:", "<", "s", "@", "x", ">">>,
      <<"RCPT TO:">>,
      <<"DATA">>, <<"QUIT">>, <<"RSET">>, <<"NOOP">>, <<"BDAT">> }

\* The commands of a client that tries senders and never sends a message.
MailCommands ==
    { <<"MAIL FROM:", "<", "u", "@", "x", ">">>,
      <<"MAIL FROM:", "<", "v", "@", "x", ">">>,
      <<"NOOP">>, <<"QUIT">> }

\* What read_line may return in the command loop: a command with CRLF, a
\* line that ends in a bare LF, a last line without line end, end of file.
CommandLines ==
    {c \o CRLF : c \in Commands} \cup {<<"NOOP", LF>>, <<"NOOP">>, <<>>}

\* What read_line may return in the DATA loop.
DataLines ==
    { END_OF_DATA, <<"a", CR, LF>>, <<CR, LF>>, <<".", "a", CR, LF>>,
      <<"a", LF>>, <<"a">>, <<>> }

SessionMails ==
    { ParseError,
      [mimetype |-> "multipart/encrypted",
       headers |-> [NoHeaders EXCEPT !["From"] = Some(<<"u", "@", "x">>)],
       subparts |-> <<VersionPart, Part("application/octet-stream", FALSE, Some(ArmorValid))>>],
      [mimetype |-> "multipart/mixed",
       headers |-> [NoHeaders EXCEPT !["From"] = Some(<<"u", "@", "x">>)],
       subparts |-> <<>>] }

\* What the peer answers: the code the client waits for, a refusal, or it
\* hangs up.
peer_responses(stage) ==
    { <<expected_code(stage), " ok", CR, LF>>,
      <<"451", " later", CR, LF>>, <<"550", " no", CR, LF>>, <<>> }

SmtpInit ==
    /\ config \in SmtpConfigs
    /\ fs = {MailboxDir(<<"s", "@", "x">>), EnforceFile(<<"s", "@", "x">>)}
    /\ envelope = NoEnvelope /\ verdict = NoVerdict
    /\ pc = "closed" /\ line = None
    /\ out = <<>> /\ data = <<>> /\ rx_lines = <<>> /\ handed = NoEnvelope
    /\ client = NoClient
    /\ PgpIdle /\ GateIdle /\ RateIdle /\ Serving

\* Lines 103..192 for one command: where the loop goes, what is written
\* and what becomes of the envelope and of the limiter.
server_command(cfg, env, ats, clock, cmd) ==
    LET branch == command_branch(cmd)
        same == [pc |-> "cmd", out |-> <<>>, envelope |-> env, ats |-> ats,
                 checked |-> <<>>]
        ok == [same EXCEPT !.out = <<REPLY_250>>]
    IN  CASE branch = "HELO" -> ok
          [] branch = "MAIL FROM:" ->
               LET from == extract_address(cmd) IN
               IF from.some
               THEN LET r == handle_mail(cfg, ats, clock, from.val)
                        entry == IF cfg.mode = "outgoing" /\ has_two_parts(from.val)
                                 THEN <<[address |-> from.val, at |-> clock,
                                         ok |-> r.res.ok]>>
                                 ELSE <<>>
                    IN  IF r.res.ok
                        THEN [ok EXCEPT !.envelope = [env EXCEPT !.mail_from = from.val],
                                        !.ats = r.state, !.checked = entry]
                        ELSE [same EXCEPT !.pc = "closed",
                                          !.out = <<reply_line(r.res.err)>>,
                                          !.ats = r.state, !.checked = entry]
               ELSE [same EXCEPT !.out = <<INVALID_ADDRESS>>]
          [] branch = "RCPT TO:" ->
               LET to == extract_address(cmd) IN
               IF to.some
               THEN [ok EXCEPT !.envelope =
                        [env EXCEPT !.rcpt_to = Append(env.rcpt_to, to.val)]]
               ELSE same
          [] branch = "DATA" -> [same EXCEPT !.pc = "data", !.out = <<REPLY_354>>]
          [] branch = "QUIT" -> [same EXCEPT !.pc = "closed", !.out = <<REPLY_221>>]
          [] branch = "RSET" -> [ok EXCEPT !.envelope = NoEnvelope]
          [] branch = "NOOP" -> ok
          [] OTHER -> [same EXCEPT !.out = <<NOT_RECOGNIZED>>]

\* run_smtp_server accepts a connection and handle_connection greets it.
Accept ==
    /\ pc = "closed"
    /\ pc' = "cmd"
    /\ out' = <<GREETING>>
    /\ envelope' = NoEnvelope /\ verdict' = NoVerdict
    /\ line' = None /\ data' = <<>> /\ rx_lines' = <<>>
    /\ handed' = NoEnvelope /\ client' = NoClient
    /\ UNCHANGED <<config, fs, address_timestamps, now, checks, smtpFrame>>

\* One turn of the 'connection loop (lines 87..193).
ReadCommand(read) ==
    /\ pc = "cmd"
    /\ line' = Some(read)
    /\ verdict' = NoVerdict /\ handed' = NoEnvelope /\ client' = NoClient
    /\ data' = <<>> /\ rx_lines' = <<>>
    /\ IF read = <<>> \/ ~command_of(read).some
       THEN /\ pc' = "closed" /\ out' = <<>>
            /\ UNCHANGED <<envelope, address_timestamps, checks>>
       ELSE \E step \in {server_command(config, envelope, address_timestamps, now,
                                          command_of(read).val)} :
                /\ Len(step.envelope.rcpt_to) <= MaxRcpts
                /\ Len(checks) + Len(step.checked) <= MaxChecks
                /\ pc' = step.pc /\ out' = step.out
                /\ envelope' = step.envelope
                /\ address_timestamps' = step.ats
                /\ checks' = checks \o step.checked
    /\ UNCHANGED <<config, fs, now, smtpFrame>>

\* handle_data up to the transport (lines 30..33) and the reply when it
\* returns at once (lines 160..177).
EndOfData ==
    LET env == [envelope EXCEPT !.data = data] IN
    \E parsed \in SessionMails :
      \E checked \in {check_data(config, fs, env, parsed)} :
        LET prepared == reinject_envelope(env)
        IN  /\ handed' = env
            /\ verdict' = [fn |-> config.mode, res |-> checked]
            /\ data' = <<>>
            /\ IF stops_handle_data(checked)
               THEN /\ out' = <<reply_line(checked.err)>>
                    /\ envelope' = NoEnvelope /\ pc' = "cmd"
                    /\ client' = NoClient /\ rx_lines' = <<>>
               ELSE IF ~prepared.ok
               THEN /\ out' = <<reply_line(prepared.err)>>
                    /\ envelope' = NoEnvelope /\ pc' = "cmd"
                    /\ client' = [NoClient EXCEPT !.stage = "failed"]
                    /\ rx_lines' = <<>>
               ELSE /\ out' = <<>>
                    /\ envelope' = env /\ pc' = "reinject"
                    /\ client' = [NoClient EXCEPT !.stage = "connect"]
                    /\ UNCHANGED rx_lines

\* One turn of the 'data_read loop (lines 135..154), and what follows it.
ReadDataLine(read) ==
    /\ pc = "data"
    /\ line' = Some(read)
    /\ IF read = END_OF_DATA THEN EndOfData
       ELSE IF ~ends_with(read, CRLF)
       THEN /\ pc' = "closed" /\ out' = <<>>
            /\ UNCHANGED <<envelope, verdict, data, rx_lines, handed, client>>
       ELSE /\ data' = extend_from_slice(data, read)
            /\ rx_lines' = Append(rx_lines, read)
            /\ IF exceeds(Len(data'), config.max_message_size)
               THEN pc' = "closed" /\ out' = <<REPLY_552>>
               ELSE pc' = "data" /\ out' = <<>>
            /\ UNCHANGED <<envelope, verdict, handed, client>>
    /\ UNCHANGED <<config, fs, address_timestamps, now, checks, smtpFrame>>

\* read_line fails (lines 88 and 136): handle_connection returns the error.
ReadError ==
    /\ pc \in {"cmd", "data"}
    /\ pc' = "closed" /\ out' = <<>>
    /\ verdict' = NoVerdict /\ handed' = NoEnvelope /\ client' = NoClient
    /\ UNCHANGED <<config, fs, line, envelope, data, rx_lines,
                   address_timestamps, now, checks, smtpFrame>>

\* smtp_client::send, lines 10..22.
ClientConnect ==
    /\ pc = "reinject" /\ client.stage = "connect"
    /\ client' = [client EXCEPT !.stage = "initial greeting"]
    /\ UNCHANGED <<config, fs, pc, line, out, envelope, verdict,
                   data, rx_lines, handed, address_timestamps, now, checks,
                   smtpFrame>>

\* What send writes once the reply of the stage is the expected one, and
\* the stage it is in then (lines 46..73).
client_next(cl, env) ==
    CASE cl.stage = "initial greeting" ->
             [cl EXCEPT !.stage = "HELO", !.sent = Append(cl.sent, HELO_LINE)]
      [] cl.stage = "HELO" ->
             [cl EXCEPT !.stage = "MAIL FROM",
                        !.sent = Append(cl.sent, mail_from_line(env))]
      [] cl.stage \in {"MAIL FROM", "RCPT TO"} ->
             IF cl.next_rcpt <= Len(env.rcpt_to)
             THEN [cl EXCEPT !.stage = "RCPT TO",
                             !.next_rcpt = cl.next_rcpt + 1,
                             !.sent = Append(cl.sent,
                                             rcpt_to_line(env.rcpt_to[cl.next_rcpt]))]
             ELSE [cl EXCEPT !.stage = "DATA", !.sent = Append(cl.sent, DATA_LINE)]
      [] cl.stage = "DATA" ->
             [cl EXCEPT !.stage = "end of DATA",
                        !.sent = cl.sent \o data_writes(env.data)]
      [] OTHER -> [cl EXCEPT !.stage = "done"]

\* Variant: the reply is written and the envelope is left as it is.
ReplyKeepingEnvelope(result) ==
    /\ out' = <<reply_line(IF result.ok THEN <<"250", " OK">> ELSE result.err)>>
    /\ envelope' = envelope
    /\ pc' = "cmd"
    /\ rx_lines' = <<>>

\* handle_data returns to handle_connection (smtp_server.rs 33..37 and
\* 160..177): one reply, and a fresh envelope.
Reply(result) ==
    /\ out' = <<reply_line(IF result.ok THEN <<"250", " OK">> ELSE result.err)>>
    /\ envelope' = NoEnvelope
    /\ pc' = "cmd"
    /\ rx_lines' = <<>>

\* The cmd!(read ..) of the stage (smtp_client.rs 33..42).
ClientRead(response) ==
    /\ pc = "reinject"
    /\ client.stage \notin {"connect", "none"}
    /\ response \in peer_responses(client.stage)
    /\ IF ~response_ok(response, client.stage)
       THEN /\ client' = [NoClient EXCEPT !.stage = "failed", !.answer = response]
            /\ Reply(Err(smtp_response(MailSend(client.stage, response))))
       ELSE IF client.stage = "end of DATA"
       THEN /\ client' = [NoClient EXCEPT !.stage = "done", !.accepted = TRUE,
                                          !.answer = response]
            /\ Reply(Ok)
       ELSE /\ client' = [client_next(client, envelope) EXCEPT !.answer = response]
            /\ UNCHANGED <<out, envelope, pc, rx_lines>>
    /\ UNCHANGED <<config, fs, line, verdict, data,
                   handed, address_timestamps, now, checks, smtpFrame>>

\* Connecting, reading or writing fails in send: the ? returns Error::Io.
ClientIoError ==
    /\ pc = "reinject"
    /\ client' = [NoClient EXCEPT !.stage = "failed"]
    /\ Reply(Err(smtp_response(Io)))
    /\ UNCHANGED <<config, fs, line, verdict, data,
                   handed, address_timestamps, now, checks, smtpFrame>>

SmtpNext ==
    \/ Accept
    \/ \E read \in CommandLines : ReadCommand(read)
    \/ \E read \in DataLines : ReadDataLine(read)
    \/ ReadError
    \/ ClientConnect
    \/ \E response \in UNION {peer_responses(st) : st \in {"initial greeting", "HELO", "DATA"}} :
           ClientRead(response)
    \/ ClientIoError

SpecSmtp == SmtpInit /\ [][SmtpNext]_vars

(***************************************************************************)
(* SpecMail: the outgoing server and clients that try senders while the    *)
(* clock advances.                                                         *)
(***************************************************************************)
MailInit == SmtpInit /\ config.mode = "outgoing"

MailNext ==
    \/ Accept
    \/ \E cmd \in MailCommands : ReadCommand(cmd \o CRLF)
    \/ \E t \in Instants : Advance(t)

SpecMail == MailInit /\ [][MailNext]_vars

(***************************************************************************)
(* SpecListen: the serving loop of run_smtp_server and main around it      *)
(***************************************************************************)
\* listener.accept().await? fails (smtp_server.rs 55): run_smtp_server
\* returns the error, and main prints it and calls process::exit(1)
\* (main.rs 96..99 and 106..109), which ends every connection task.
AcceptFails ==
    /\ Serving
    /\ server' = "exited"
    /\ pc' = "closed"
    /\ UNCHANGED <<config, fs, line, out, envelope, verdict, data, rx_lines,
                   handed, client, address_timestamps, now, checks,
                   pgpVars, gateVars, mutex, task, seq_limiter>>

ListenNext ==
    \/ Serving /\ Accept
    \/ Serving /\ \E cmd \in MailCommands : ReadCommand(cmd \o CRLF)
    \/ AcceptFails

SpecListen == SmtpInit /\ [][ListenNext]_vars

(***************************************************************************)
(* SpecSession: the command loop alone, for a client that never sends      *)
(* DATA but sends addresses with "=" in them and lines with a stray CR.    *)
(***************************************************************************)
SessionCommands ==
    (Commands \ {<<"DATA">>}) \cup
    { <<"MAIL FROM:", "<", "a", "=", "b", "@", "x", ">">>,
      <<"MAIL FROM:", "<", "a", "=", "b", "@", "x", ">", " ", "SIZE", "=", "1">>,
      <<"RCPT TO:", "<", "a", "=", "b", "@", "x", ">">>,
      <<"RCPT TO:", "<", "a", "@", "x", ">", " ", "NOTIFY", "=", "NEVER">> }

\* What read_line may return: a command with CRLF, a line with a CR in the
\* middle, a line that ends in a bare LF, last lines that end in a bare CR
\* or without line end, end of file.
SessionLines ==
    {c \o CRLF : c \in SessionCommands}
    \cup { <<"NOOP", CR, "x", CR, LF>>, <<"NOOP", LF>>, <<"NOOP", CR>>,
           <<"NOOP">>, <<>> }

SessionNext ==
    \/ Accept
    \/ \E read \in SessionLines : ReadCommand(read)

SpecSession == SmtpInit /\ [][SessionNext]_vars

(***************************************************************************)
(* SpecArmor: check_encrypted on messages whose second part is an armor    *)
(* with or without CRC24 line, with or without Version comment, with or    *)
(* without a line end behind the END line.                                 *)
(***************************************************************************)
\* Base64 bodies: D2 01 00, D2 00, C1 00 D2 01 00 and C1 00 D2 00 (a SEIPD
\* packet, alone or behind a PKESK), C1 00 (a lone PKESK) and C1 (cut off).
ArmorBodies ==
    { <<"0", "g", "E", "A">>, <<"0", "g", "A", "=">>,
      <<"w", "Q", "D", "S", "A", "Q", "A", "=">>,
      <<"w", "Q", "D", "S", "A", "A", "=", "=">>,
      <<"w", "Q", "A", "=">>, <<"w", "Q", "=", "=">> }

ArmorText(body, crc, comment, line_end) ==
    PREFIX \o (IF comment THEN <<"Version: ", "1">> \o CRLF ELSE <<>>)
           \o CRLF \o body \o CRLF
           \o (IF crc THEN <<"=", "a", "g", "R", "5">> \o CRLF ELSE <<>>)
           \o SUFFIX \o (IF line_end THEN CRLF ELSE <<>>)

ArmorMail(armored) ==
    [mimetype |-> "multipart/encrypted",
     headers |-> NoHeaders,
     subparts |-> <<VersionPart, Part("application/octet-stream", FALSE, Some(armored))>>]

ArmorInit ==
    /\ mail \in {ArmorMail(ArmorText(body, crc, comment, line_end)) :
                    body \in ArmorBodies, crc \in BOOLEAN,
                    comment \in BOOLEAN, line_end \in BOOLEAN}
    /\ gate_call = NoCall
    /\ gate_result = FALSE
    /\ PgpIdle /\ PolicyIdle /\ RateIdle /\ SmtpIdle /\ Serving

ArmorNext == \E outgoing \in BOOLEAN : CheckEncrypted(outgoing)

SpecArmor == ArmorInit /\ [][ArmorNext]_vars

(***************************************************************************)
(* SpecReinject: sessions of a client that sends one sender, one recipient *)
(* and a message, with the reinjection that follows.  The task is polled   *)
(* whenever it can go on by itself, which it can in ClientConnect alone:   *)
(* every other step waits for a line of the client or of the peer, or for  *)
(* an error of the socket, and none of these waits has a timeout.          *)
(***************************************************************************)
ReinjectCommands ==
    { <<"MAIL FROM:", "<", "u", "@", "x", ">">>,
      <<"RCPT TO:", "<", "a", "@", "x", ">">>,
      <<"DATA">> }

\* What read_line may return in the DATA loop, here also lines with a CR
\* or a "." next to the "." that starts them.
ReinjectDataLines ==
    DataLines \cup { <<CR, ".", CR, LF>>, <<".", CR, CR, LF>>, <<".", ".", CR, LF>> }

ReinjectNext ==
    \/ Accept
    \/ \E cmd \in ReinjectCommands : ReadCommand(cmd \o CRLF)
    \/ \E read \in ReinjectDataLines : ReadDataLine(read)
    \/ ClientConnect
    \/ \E response \in UNION {peer_responses(st) : st \in {"initial greeting", "HELO", "DATA"}} :
           ClientRead(response)
    \/ ClientIoError

SpecReinject == SmtpInit /\ [][ReinjectNext]_vars /\ WF_vars(ClientConnect)

(***************************************************************************)
(* SpecPgp: payloads are built byte by byte and scanned                    *)
(***************************************************************************)
Zeros(n) == [k \in 1..n |-> 0]

\* What follows a long piece: nothing, one more body byte, or a SEIPD packet.
Suffixes == {<<>>, <<0>>, <<210, 0>>}

PgpInit ==
    /\ payload = <<>> /\ pgp_result = "none"
    /\ GateIdle /\ PolicyIdle /\ RateIdle /\ SmtpIdle /\ Serving

\* Short payloads grow byte by byte.
AppendByte(b) ==
    /\ Len(payload) < MaxPayloadLen
    /\ payload' = Append(payload, b)
    /\ pgp_result' = "none"
    /\ UNCHANGED pgpFrame

\* A body long enough for a two-octet length, and what follows it.
AppendRun(n, suffix) ==
    /\ Len(payload) < MaxPayloadLen
    /\ payload' = payload \o Zeros(n) \o suffix
    /\ pgp_result' = "none"
    /\ UNCHANGED pgpFrame

\* A five-octet length of n, and what follows it.
AppendFiveOctet(n, suffix) ==
    /\ Len(payload) < MaxPayloadLen
    /\ payload' = payload \o <<255, 0, 0, 0, n>> \o suffix
    /\ pgp_result' = "none"
    /\ UNCHANGED pgpFrame

Scan ==
    /\ pgp_result = "none"
    /\ pgp_result' = check_openpgp_payload(payload)
    /\ UNCHANGED <<payload, pgpFrame>>

PgpNext ==
    \/ \E b \in PayloadBytes : AppendByte(b)
    \/ \E n \in RunLens, suffix \in Suffixes : AppendRun(n, suffix)
    \/ \E n \in 0..1, suffix \in Suffixes : AppendFiveOctet(n, suffix)
    \/ Scan

SpecPgp == PgpInit /\ [][PgpNext]_vars

(***************************************************************************)
(* C1                                                                      *)
(***************************************************************************)
\* A body as the claim describes it: zero or more partial-length chunks
\* followed by a final length and exactly that many bytes, filling s.
RECURSIVE IsBody(_)
IsBody(s) ==
    /\ Len(s) >= 1
    /\ \/ s[1] < 192 /\ Len(s) = 1 + s[1]
       \/ /\ s[1] >= 192 /\ s[1] < 224 /\ Len(s) >= 2
          /\ Len(s) = 2 + (s[1] - 192) * 256 + s[2] + 192
       \/ /\ s[1] = 255 /\ Len(s) >= 5
          /\ s[2] = 0
          /\ Len(s) = 5 + s[3] * 65536 + s[4] * 256 + s[5]
       \/ /\ s[1] >= 224 /\ s[1] < 255
          /\ Len(s) > 1 + Pow2(s[1] - 224)
          /\ IsBody(SubSeq(s, 2 + Pow2(s[1] - 224), Len(s)))

\* s is one complete new-format packet whose tag is in tags.
IsPacket(s, tags) ==
    /\ Len(s) >= 1
    /\ s[1] >= 192
    /\ (s[1] - 192) \in tags
    /\ IsBody(Tail(s))

\* p is a run of PKESK/SKESK packets closed by one SEIPD packet.
RECURSIVE IsEncryptedStream(_)
IsEncryptedStream(p) ==
    \/ IsPacket(p, {18})
    \/ \E n \in 1..(Len(p) - 1) :
          /\ IsPacket(SubSeq(p, 1, n), {1, 3})
          /\ IsEncryptedStream(SubSeq(p, n + 1, Len(p)))

\* C1: check_openpgp_payload(p) is true exactly when p is a non-empty
\* concatenation of complete new-format packets, the last with tag 18 and
\* every earlier one with tag 1 or 3, with nothing after the last packet;
\* the empty payload, a lone PKESK and PKESK+PKESK are not valid and a
\* single SEIPD packet is valid.
C1_ScannerAcceptsExactlyStreams ==
    pgp_result # "none" =>
        /\ (pgp_result = "true") <=> IsEncryptedStream(payload)
        /\ payload = <<>> => pgp_result = "false"
        /\ payload = <<193, 0>> => pgp_result = "false"
        /\ payload = <<193, 0, 193, 0>> => pgp_result = "false"
        /\ payload = <<210, 0>> => pgp_result = "true"

\* A PKESK, an SKESK with a partial-length chunk and a SEIPD were accepted.
C1_Witness ==
    /\ pgp_result = "true"
    /\ Len(payload) >= 4
    /\ payload[1] \in {193, 195}
    /\ payload[Len(payload) - 1] = 210

(***************************************************************************)
(* C2                                                                      *)
(***************************************************************************)
IsCheckEncrypted == gate_call.fn = "check_encrypted"

\* C2: check_encrypted(mail, outgoing) is true exactly when the top-level
\* type is multipart/encrypted, the mail has exactly two direct sub-parts,
\* neither multipart, part 0 is application/pgp-encrypted with trimmed body
\* "Version: 1" and part 1 is application/octet-stream with a body that
\* passes the armor check; a multipart/encrypted mail with one sub-part is
\* never classified as encrypted.
C2_EncryptedIffTwoParts ==
    IsCheckEncrypted =>
        (gate_result <=>
            /\ mail.mimetype = "multipart/encrypted"
            /\ Len(mail.subparts) = 2
            /\ ~mail.subparts[1].has_subparts
            /\ ~mail.subparts[2].has_subparts
            /\ mail.subparts[1].mimetype = "application/pgp-encrypted"
            /\ mail.subparts[1].body.some
            /\ trim(mail.subparts[1].body.val) = <<"Version: 1">>
            /\ mail.subparts[2].mimetype = "application/octet-stream"
            /\ mail.subparts[2].body.some
            /\ check_armored_payload(mail.subparts[2].body.val, gate_call.outgoing))

(***************************************************************************)
(* C10                                                                     *)
(***************************************************************************)
\* The mailbox of a From header of the model starts with "mailer-daemon@",
\* whatever its case: the token before "@" is mailer-daemon and starts the
\* mailbox.
FromIsMailerDaemon(m) ==
    /\ m.headers["From"].some
    /\ LET h == m.headers["From"].val IN
       \E i \in 2..Len(h) :
          /\ h[i] = "@"
          /\ h[i - 1] \in {"mailer-daemon", "Mailer-Daemon", "MAILER-DAEMON"}
          /\ (i = 2 \/ h[i - 2] = "<")

IsDsn(m) ==
    /\ m.headers["Auto-Submitted"].some
    /\ m.headers["Auto-Submitted"].val # <<>>
    /\ FromIsMailerDaemon(m)
    /\ m.mimetype = "multipart/report"

NeverCleartext(addr) == contains(addr, "/") \/ ~contains(addr, "@")

\* C10: incoming check_data answers unparseable data with 500 Failed to
\* parse message; accepts encrypted (incoming mode) or secure-join mail
\* whatever the recipients; otherwise accepts a mail with non-empty
\* Auto-Submitted, a From mailbox starting mailer-daemon@ and top-level type
\* multipart/report; otherwise rejects with 523 exactly when some recipient
\* fails is_cleartext_ok, which a recipient with "/" or without "@" always
\* does.
C10_IncomingDecisionOrder ==
    verdict.fn = "incoming" =>
        LET rcpts == envelope.rcpt_to
            failing == \E k \in 1..Len(rcpts) : ~is_cleartext_ok(fs, rcpts[k])
        IN  IF mail = ParseError
            THEN verdict.res = Err(<<"500", " Failed to parse message: ", "reason">>)
            ELSE IF check_encrypted(mail, FALSE) \/ is_securejoin(mail)
            THEN verdict.res = Ok
            ELSE IF IsDsn(mail)
            THEN verdict.res = Ok
            ELSE /\ failing <=>
                      verdict.res = Err(<<"523", " Encryption Needed: Invalid Unencrypted Mail">>)
                 /\ ~failing <=> verdict.res = Ok
                 /\ (\E k \in 1..Len(rcpts) : NeverCleartext(rcpts[k])) => ~verdict.res.ok

\* A bounce was accepted although a recipient enforces encryption.
C10_Witness ==
    /\ verdict.fn = "incoming"
    /\ verdict.res = Ok
    /\ mail # ParseError
    /\ ~check_encrypted(mail, FALSE) /\ ~is_securejoin(mail)
    /\ IsDsn(mail)
    /\ \E k \in 1..Len(envelope.rcpt_to) : ~is_cleartext_ok(fs, envelope.rcpt_to[k])

(***************************************************************************)
(* C7                                                                      *)
(***************************************************************************)
\* The successful checks for address whose time lies in [from, from + 60).
SuccessesInWindow(address, from) ==
    {i \in 1..Len(checks) :
        /\ checks[i].ok
        /\ checks[i].address = address
        /\ checks[i].at >= from
        /\ checks[i].at < from + ONE_MINUTE}

C9_ChecksAreAtomic ==
    /\ \A t \in Tasks : task[t].pc = "idle" => task[t].res = task[t].expect
    /\ (\A t \in Tasks : task[t].pc \in {"idle", "locked"}) =>
           address_timestamps = seq_limiter
    /\ \A t \in Tasks, u \in Tasks : 
           (t # u /\ task[t].pc = "prepared") => task[u].pc # "prepared"

\* Both tasks have asked for the same address: one has finished and was
\* granted, the other is inside the call and is about to be denied.
C9_Witness ==
    /\ task[1].pc = "idle" /\ task[1].res = Ok
    /\ task[1].address = <<"u", "@", "x">>
    /\ task[2].pc = "prepared" /\ task[2].address = <<"u", "@", "x">>
    /\ task[2].expect # Ok

(***************************************************************************)
(* C3                                                                      *)
(***************************************************************************)
\* handle_data was called for the last line read.
DataHandled == verdict.fn # "none"

\* C3: after the end-of-data line the server calls check_data first and
\* reinject_mail only if check_data succeeded; no reply is written while
\* the reinjection runs; then exactly one reply is written, and it is
\* "250 OK" exactly if check_data succeeded and the peer accepted the
\* message at the end of DATA.
C3_CheckThenReinjectThenOneReply ==
    /\ client.stage # "none" => DataHandled /\ verdict.res.ok
    /\ pc = "reinject" => DataHandled /\ verdict.res.ok /\ out = <<>>
    /\ (DataHandled /\ pc # "reinject") =>
          /\ Len(out) = 1
          /\ out = <<REPLY_250>> <=> (verdict.res.ok /\ client.accepted)

\* A transaction that passed the check and was accepted by the peer.
C3_Witness ==
    /\ DataHandled /\ verdict.res.ok /\ client.accepted
    /\ pc = "cmd" /\ out = <<REPLY_250>>
    /\ Len(handed.rcpt_to) = 2

(***************************************************************************)
(* C4                                                                      *)
(***************************************************************************)
RECURSIVE Flatten(_)
Flatten(seqs) == IF seqs = <<>> THEN <<>> ELSE Head(seqs) \o Flatten(Tail(seqs))

\* The bytes written after the first write of "DATA\r\n" and before the
\* last write.
BodySent(sent) ==
    LET k == Min({i \in 1..Len(sent) : sent[i] = DATA_LINE}) IN
    Flatten(SubSeq(sent, k + 1, Len(sent) - 1))

C5_LineWithoutCrlfEndsSession ==
    [][ /\ (line'.some /\ ~ends_with(line'.val, CRLF)) =>
              /\ pc' = "closed" /\ out' = <<>>
              /\ verdict' = NoVerdict /\ handed' = NoEnvelope
              /\ client' = NoClient
        /\ pc = "closed" => (line' = None /\ out' = <<GREETING>>)
      ]_vars

\* A DATA transaction was cut by a line that ends in a bare LF, after a
\* complete line.
C5_Witness ==
    /\ line = Some(<<"a", LF>>)
    /\ data # <<>>
    /\ pc = "closed"

(***************************************************************************)
(* C6                                                                      *)
(***************************************************************************)
\* C6: the DATA loop goes on only while the accumulated size is within
\* max_message_size; once it is larger the reply is "552 Message exceeds
\* maximum size" and the connection is closed; that reply is written in no
\* other case (so not for exactly max_message_size bytes), and every
\* envelope handed to handle_data has at most max_message_size bytes.
C6_SizeLimit ==
    /\ pc = "data" => Len(data) <= config.max_message_size
    /\ Len(data) > config.max_message_size =>
          pc = "closed" /\ out = <<REPLY_552>>
    /\ out = <<REPLY_552>> =>
          pc = "closed" /\ Len(data) > config.max_message_size
    /\ DataHandled => Len(handed.data) <= config.max_message_size
    /\ pc = "reinject" => envelope = handed

\* A message of exactly max_message_size bytes was handed to handle_data.
C6_Witness ==
    /\ DataHandled
    /\ Len(handed.data) = config.max_message_size

(***************************************************************************)
(* C8                                                                      *)
(***************************************************************************)
\* The line read last is a MAIL FROM for address.
LastIsMailFrom(address) ==
    /\ line.some /\ command_of(line.val).some
    /\ command_branch(command_of(line.val).val) = "MAIL FROM:"
    /\ extract_address(command_of(line.val).val) = Some(address)

\* The checks for the address of check n in the minute before check n.
EarlierInMinute(n) ==
    {i \in 1..(n - 1) :
        /\ checks[i].address = checks[n].address
        /\ checks[n].at - checks[i].at < ONE_MINUTE}

MailboxDirExists(files, addr) == MailboxDir(addr) \in files

\* The data reaches the recipient test of incoming check_data: it parses
\* and is neither encrypted, nor a secure-join request, nor a bounce.
IsIncomingCleartext ==
    /\ verdict.fn = "incoming"
    /\ mail # ParseError
    /\ ~check_encrypted(mail, FALSE) /\ ~is_securejoin(mail)
    /\ ~IsDsn(mail)

\* C11: is_cleartext_ok(addr) is true exactly when the mailbox directory of
\* addr exists and holds no enforceE2EEincoming file, so incoming cleartext
\* to a recipient whose mailbox directory does not exist is rejected with
\* 523.
C11_CleartextNeedsMailboxDir ==
    IsIncomingCleartext =>
        /\ \A k \in 1..Len(envelope.rcpt_to) :
              is_cleartext_ok(fs, envelope.rcpt_to[k]) <=>
                  /\ MailboxDirExists(fs, envelope.rcpt_to[k])
                  /\ ~enforce_e2ee_exists(fs, envelope.rcpt_to[k])
        /\ (\E k \in 1..Len(envelope.rcpt_to) :
               ~MailboxDirExists(fs, envelope.rcpt_to[k]))
           => verdict.res = Err(ENCRYPTION_NEEDED_523)

(***************************************************************************)
(* C12                                                                     *)
(***************************************************************************)
\* The first mailbox of each From header of OutgoingFromHeaders, by hand;
\* <<>> where the header is missing or names no mailbox.
FromMailbox(m) ==
    LET h == m.headers["From"] IN
    IF h = Some(<<"u", "@", "x">>) THEN <<"u", "@", "x">>
    ELSE IF h = Some(<<"n", " ", "<", "U", "@", "x", ">", " ">>) THEN <<"U", "@", "x">>
    ELSE IF h = Some(<<"v", "@", "x">>) THEN <<"v", "@", "x">>
    ELSE <<>>

\* ASCII case folding of the letters the addresses of the model use.
Fold(s) == [i \in 1..Len(s) |-> IF s[i] = "U" THEN "u" ELSE s[i]]

FromParity(m, env) ==
    /\ m # ParseError
    /\ FromMailbox(m) # <<>>
    /\ Fold(FromMailbox(m)) = Fold(env.mail_from)

IsOutgoingChecked == verdict.fn = "outgoing"

\* C12: the outgoing check_data accepts no message unless the first mailbox
\* of its From header equals envelope.mail_from ignoring ASCII case; the
\* test comes before every accept rule, so encrypted, secure-join,
\* passthrough-sender and setup messages fail it too, with a 500 Invalid
\* FROM reply; a missing or unparseable From header is answered 500 Invalid
\* FROM header.
C12_FromParityBeforeAccept ==
    IsOutgoingChecked =>
        /\ verdict.res.ok => FromParity(mail, envelope)
        /\ (mail # ParseError /\ FromMailbox(mail) = <<>>) =>
               /\ ~verdict.res.ok
               /\ starts_with(verdict.res.err, <<"500", " Invalid FROM header: ">>)
        /\ (mail # ParseError /\ FromMailbox(mail) # <<>> /\ ~FromParity(mail, envelope)) =>
               /\ ~verdict.res.ok
               /\ starts_with(verdict.res.err, <<"500", " Invalid FROM ", "<">>)

\* An encrypted message of a passthrough sender was refused for its From.
C12_Witness ==
    /\ IsOutgoingChecked
    /\ mail # ParseError
    /\ check_encrypted(mail, TRUE)
    /\ \E k \in 1..Len(config.passthrough_senders) :
          config.passthrough_senders[k] = envelope.mail_from
    /\ FromMailbox(mail) = <<"U", "@", "x">>
    /\ ~verdict.res.ok

(***************************************************************************)
(* C13                                                                     *)
(***************************************************************************)
IsPassthroughSender(cfg, env) ==
    \E k \in 1..Len(cfg.passthrough_senders) : cfg.passthrough_senders[k] = env.mail_from

IsSetupMessage(m, env) ==
    /\ env.rcpt_to = <<env.mail_from>>
    /\ m.headers["Subject"] = Some(<<"Autocrypt Setup Message">>)
    /\ m.mimetype = "multipart/mixed"

\* A pattern matches a recipient that equals it or, when the pattern starts
\* with "@", a recipient whose last characters are the pattern.
PatternMatches(pattern, recipient) ==
    \/ recipient = pattern
    \/ /\ pattern # <<>> /\ pattern[1] = "@"
       /\ Len(recipient) >= Len(pattern)
       /\ SubSeq(recipient, Len(recipient) - Len(pattern) + 1, Len(recipient)) = pattern

AllRecipientsListed(cfg, env) ==
    \A k \in 1..Len(env.rcpt_to) :
        \E j \in 1..Len(cfg.passthrough_recipients) :
            PatternMatches(cfg.passthrough_recipients[j], env.rcpt_to[k])

IsOutgoingCleartext ==
    /\ IsOutgoingChecked
    /\ FromParity(mail, envelope)
    /\ ~check_encrypted(mail, TRUE) /\ ~is_securejoin(mail)

\* C13: an outgoing message that passed the From test and is neither
\* encrypted nor a secure-join request is accepted exactly when its sender
\* is a passthrough sender, or it is a self-sent Autocrypt Setup Message of
\* type multipart/mixed, or every recipient matches a passthrough pattern;
\* otherwise the reply is 523 Encryption Needed: Invalid Unencrypted Mail.
C13_CleartextAcceptRules ==
    IsOutgoingCleartext =>
        LET accepted == \/ IsPassthroughSender(config, envelope)
                        \/ IsSetupMessage(mail, envelope)
                        \/ AllRecipientsListed(config, envelope)
        IN  /\ accepted <=> verdict.res = Ok
            /\ ~accepted <=>
                   verdict.res = Err(<<"523", " Encryption Needed: Invalid Unencrypted Mail">>)

\* The pattern @x did not let a recipient in a sub-domain of x through.
C13_Witness ==
    /\ IsOutgoingCleartext
    /\ config.passthrough_recipients = << <<"@", "x">> >>
    /\ envelope.rcpt_to = << <<"a", "@", "x">>, <<"b", "@", "sub.", "x">> >>
    /\ verdict.res = Err(<<"523", " Encryption Needed: Invalid Unencrypted Mail">>)

(***************************************************************************)
(* C14                                                                     *)
(***************************************************************************)
\* The text that follows the BEGIN line of an armored payload has a Version
\* comment first.
HasVersionComment(armored) ==
    /\ Len(armored) > Len(PREFIX)
    /\ SubSeq(armored, 1, Len(PREFIX)) = PREFIX
    /\ armored[Len(PREFIX) + 1] = "Version: "

\* C14: check_armored_payload(p, TRUE) holds exactly when
\* check_armored_payload(p, FALSE) holds and the text after the BEGIN line
\* does not start with "Version: "; hence a mail that check_encrypted takes
\* as encrypted with the outgoing flag is encrypted with the incoming flag.
C14_OutgoingArmorIsStricter ==
    IsCheckEncrypted =>
        /\ \A k \in 1..Len(mail.subparts) :
              mail.subparts[k].body.some =>
                  (check_armored_payload(mail.subparts[k].body.val, TRUE) <=>
                      /\ check_armored_payload(mail.subparts[k].body.val, FALSE)
                      /\ ~HasVersionComment(mail.subparts[k].body.val))
        /\ (gate_call.outgoing /\ gate_result) => check_encrypted(mail, FALSE)

\* A mail with a Version comment in its armor was refused with the outgoing
\* flag although it is encrypted with the incoming flag.
C14_Witness ==
    /\ IsCheckEncrypted
    /\ gate_call.outgoing /\ ~gate_result
    /\ check_encrypted(mail, FALSE)
    /\ HasVersionComment(mail.subparts[2].body.val)

(***************************************************************************)
(* C15                                                                     *)
(***************************************************************************)
\* C15: no parsed mail is both a secure-join request and encrypted,
\* whichever flag check_encrypted is given.
C15_SecurejoinExcludesEncrypted ==
    /\ (IsCheckEncrypted /\ gate_result) => ~is_securejoin(mail)
    /\ (gate_call.fn = "is_securejoin" /\ gate_result) =>
           ~check_encrypted(mail, TRUE) /\ ~check_encrypted(mail, FALSE)

\* A multipart/encrypted mail was found to be a secure-join request.
C15_Witness ==
    /\ gate_call.fn = "is_securejoin" /\ gate_result
    /\ mail.mimetype = "multipart/encrypted"
    /\ mail.headers["Secure-Join"] = Some(<<"vc-request">>)

(***************************************************************************)
(* C16                                                                     *)
(***************************************************************************)
\* A MAIL FROM was accepted since the connection started, since the last
\* RSET and since the last completed message: the envelope has a sender.
HasFrom == envelope.mail_from # <<>>

\* C16: DATA is answered 354 and starts a data transfer only when a MAIL
\* FROM has been accepted for the message; a DATA right after the greeting
\* starts no data transfer.
C16_DataNeedsMailFrom ==
    (pc = "data" \/ out = <<REPLY_354>>) => HasFrom

(***************************************************************************)
(* C17                                                                     *)
(***************************************************************************)
\* The reinjection ended because the peer answered a step with a line that
\* does not start with the expected code.
PeerRefused == client.stage = "failed" /\ client.answer # <<>>

TRUNCATED_TEXT == "OpenPGP packet header is truncated - can't validate!"

\* check_data ran the scanner on the payload of ArmorTruncated, and the
\* scanner failed with TruncatedHeader.
ScannerTruncated ==
    /\ verdict.fn = "incoming"
    /\ mail # ParseError
    /\ mail.mimetype = "multipart/encrypted"
    /\ mail.subparts =
           <<VersionPart, Part("application/octet-stream", FALSE, Some(ArmorTruncated))>>
    /\ base64_decode(<<"w", "Q", "=", "=">>) = Some(<<193>>)
    /\ check_openpgp_payload(<<193>>) = TruncatedHeader

\* C18: when the scanner fails with TruncatedHeader on the payload of a
\* message being checked, the reply is a 500 reply that contains the text
\* "OpenPGP packet header is truncated - can't validate!".
C18_TruncatedHeaderIs500 ==
    ScannerTruncated =>
        /\ ~verdict.res.ok
        /\ verdict.res.err[1] = "500"
        /\ \E i \in 1..Len(verdict.res.err) : verdict.res.err[i] = TRUNCATED_TEXT

(***************************************************************************)
(* C19                                                                     *)
(***************************************************************************)
ReplyCodes == {"220", "221", "250", "354", "450", "451", "500", "523", "552"}

\* One line: a reply code first, CRLF last, and no CR or LF before it.
IsReplyLine(r) ==
    /\ Len(r) >= 3
    /\ r[1] \in ReplyCodes
    /\ r[Len(r) - 1] = CR /\ r[Len(r)] = LF
    /\ \A i \in 1..(Len(r) - 2) : r[i] \notin {CR, LF}

\* C19: every reply written to the client is a single line that ends with
\* exactly one CRLF and starts with one of the reply codes 220, 221, 250,
\* 354, 450, 451, 500, 523, 552, on every error path.
C19_EveryReplyHasACode ==
    \A i \in 1..Len(out) : IsReplyLine(out[i])

(***************************************************************************)
(* C20                                                                     *)
(***************************************************************************)
\* The code each step of the exchange waits for.
StepCode(stage) ==
    IF stage = "initial greeting" THEN "220"
    ELSE IF stage = "DATA" THEN "354"
    ELSE "250"

\* The RCPT TO commands of the first n recipients, in envelope order.
RcptCommands(env, n) ==
    [i \in 1..n |-> <<"RCPT TO:", "<">> \o env.rcpt_to[i] \o <<">", CR, LF>>]

\* What the client has written when it waits for the reply of a stage.
WrittenBefore(stage, next_rcpt, env) ==
    LET hello == <<"HELO localhost", CR, LF>>
        from == <<"MAIL FROM:", "<">> \o env.mail_from \o <<">", CR, LF>>
        all == RcptCommands(env, Len(env.rcpt_to))
    IN  IF stage \in {"connect", "initial greeting"} THEN <<>>
        ELSE IF stage = "HELO" THEN <<hello>>
        ELSE IF stage = "MAIL FROM" THEN <<hello, from>>
        ELSE IF stage = "RCPT TO" THEN <<hello, from>> \o RcptCommands(env, next_rcpt - 1)
        ELSE IF stage = "DATA" THEN <<hello, from>> \o all \o <<<<"DATA", CR, LF>>>>
        ELSE <<hello, from>> \o all
                 \o <<<<"DATA", CR, LF>>, env.data, <<".", CR, LF>>>>

ExchangeInOrder ==
    pc = "reinject" =>
        /\ client.sent = WrittenBefore(client.stage, client.next_rcpt, envelope)
        /\ client.stage = "RCPT TO" => client.next_rcpt - 1 \in 1..Len(envelope.rcpt_to)

\* A step of the client that has read a reply: it goes on and writes only
\* when the reply starts with the code of the step, and otherwise the
\* exchange is over with nothing written.
ReplyDecides ==
    (pc = "reinject" /\ client.stage # "connect" /\ client' # client) =>
        IF client'.answer # <<>> /\ client'.answer[1] = StepCode(client.stage)
        THEN IF client.stage = "end of DATA"
             THEN client'.stage = "done" /\ client'.accepted /\ pc' = "cmd"
             ELSE /\ pc' = "reinject"
                  /\ Len(client'.sent) > Len(client.sent)
                  /\ SubSeq(client'.sent, 1, Len(client.sent)) = client.sent
        ELSE /\ client'.stage = "failed" /\ ~client'.accepted
             /\ client'.sent = <<>>
             /\ pc' = "cmd"

C21_AcceptFailureKeepsServing ==
    server # "exited"

(***************************************************************************)
(* C23                                                                     *)
(***************************************************************************)
\* The length that starts at 0-based cursor i of p: "missing" when an octet
\* of it lies beyond the payload (an overrunning partial chunk leaves the
\* cursor there), otherwise the cursor at which the final body ends.
RECURSIVE LengthAt(_, _)
LengthAt(p, i) ==
    IF i >= Len(p) THEN [kind |-> "missing", at |-> i]
    ELSE IF p[i + 1] < 192 THEN [kind |-> "body", at |-> i + 1 + p[i + 1]]
    ELSE IF p[i + 1] < 224 THEN
        IF i + 1 >= Len(p) THEN [kind |-> "missing", at |-> i]
        ELSE [kind |-> "body",
              at |-> i + 2 + (p[i + 1] - 192) * 256 + p[i + 2] + 192]
    ELSE IF p[i + 1] = 255 THEN
        IF i + 4 >= Len(p) THEN [kind |-> "missing", at |-> i]
        ELSE IF p[i + 2] > 0 THEN [kind |-> "body", at |-> i + 5 + 16777216]
        ELSE [kind |-> "body",
              at |-> i + 5 + p[i + 3] * 65536 + p[i + 4] * 256 + p[i + 5]]
    ELSE LengthAt(p, i + 1 + Pow2(p[i + 1] - 224))

\* How the walk over the packets of p from cursor i runs off the payload:
\* "header" when a length octet is missing, "body" when a final body
\* length reaches beyond the last byte, "none" when neither happens before
\* the walk ends.
RECURSIVE Overrun(_, _)
Overrun(p, i) ==
    IF i >= Len(p) \/ p[i + 1] < 192 THEN "none"
    ELSE LET l == LengthAt(p, i + 1) IN
         IF l.kind = "missing" THEN "header"
         ELSE IF l.at > Len(p) THEN "body"
         ELSE IF l.at = Len(p) \/ p[i + 1] \notin {193, 195} THEN "none"
         ELSE Overrun(p, l.at)

IsScanned == pgp_result # "none"

MaxAdvance == 5 + 1073741824

RecentSends(ats, address) ==
    IF address \in DOMAIN ats
    THEN SelectSeq(ats[address], LAMBDA t : now - t <= ONE_MINUTE)
    ELSE <<>>

\* A check for address at this instant would be denied.
WouldBeDenied(ats, address) ==
    Len(RecentSends(ats, address)) > max_user_send_per_minute

DeniedCheck ==
    /\ Len(checks') = Len(checks) + 1
    /\ ~checks'[Len(checks')].ok

HasBareLineEnd(s) ==
    \E i \in 1..Len(s) :
        \/ s[i] = CR /\ (i = Len(s) \/ s[i + 1] # LF)
        \/ s[i] = LF /\ (i = 1 \/ s[i - 1] # CR)

\* C22: a command line with a bare CR or a bare LF in it, also a bare CR in
\* the middle of a line that ends with CRLF, closes the connection with no
\* reply; it is not dispatched as a command and nothing of it is stored.
C22_BareLineEndCloses ==
    [][\A read \in SessionLines :
          (pc = "cmd" /\ line' = Some(read) /\ HasBareLineEnd(read))
          => (pc' = "closed" /\ out' = <<>> /\ envelope' = envelope /\ data' = <<>>)]_vars

(***************************************************************************)
(* C28                                                                     *)
(***************************************************************************)
\* The line read last is a MAIL FROM command that was answered "250 OK".
MailFromAccepted ==
    /\ line.some /\ command_of(line.val).some
    /\ command_branch(command_of(line.val).val) = "MAIL FROM:"
    /\ out = <<REPLY_250>>

\* C28: in both modes, after a MAIL FROM that was answered "250 OK" the
\* envelope's mail_from has exactly one "@".
C28_AcceptedSenderHasOneAt ==
    MailFromAccepted => Cardinality(Occurrences(envelope.mail_from, <<"@">>)) = 1

(***************************************************************************)
(* C30                                                                     *)
(***************************************************************************)
\* Commands and the address between their angle brackets, in lower case.
AddressCommands ==
    { [cmd |-> <<"MAIL FROM:", "<", "u", "@", "x", ">">>,
       addr |-> <<"u", "@", "x">>],
      [cmd |-> <<"mail from:", "<", "U", "@", "x", ">", " ", "SIZE", "=", "1">>,
       addr |-> <<"u", "@", "x">>],
      [cmd |-> <<"RCPT TO:", "<", "a", "@", "x", ">">>,
       addr |-> <<"a", "@", "x">>],
      [cmd |-> <<"RCPT TO:", "<", "a", "@", "x", ">", " ", "NOTIFY", "=", "NEVER">>,
       addr |-> <<"a", "@", "x">>],
      [cmd |-> <<"MAIL FROM:", "<", "a", "=", "b", "@", "x", ">">>,
       addr |-> <<"a", "=", "b", "@", "x">>],
      [cmd |-> <<"MAIL FROM:", "<", "a", "=", "b", "@", "x", ">", " ", "SIZE", "=", "1">>,
       addr |-> <<"a", "=", "b", "@", "x">>],
      [cmd |-> <<"RCPT TO:", "<", "a", "=", "b", "@", "x", ">">>,
       addr |-> <<"a", "=", "b", "@", "x">>] }

\* C30: for MAIL FROM:<addr> and RCPT TO:<addr>, with or without extension
\* parameters, extract_address gives addr in lower case, also when addr has
\* a "=" in it: the session that goes on after the command has stored addr.
C30_AddressKeptWhole ==
    \A c \in AddressCommands :
        (pc = "cmd" /\ line = Some(c.cmd \o CRLF))
        => /\ extract_address(c.cmd) = Some(c.addr)
           /\ IF command_branch(c.cmd) = "MAIL FROM:"
              THEN envelope.mail_from = c.addr
              ELSE /\ envelope.rcpt_to # <<>>
                   /\ envelope.rcpt_to[Len(envelope.rcpt_to)] = c.addr

(***************************************************************************)
(* C27                                                                     *)
(***************************************************************************)
\* The RCPT TO lines of the client and the address each one names.
RcptLines ==
    { [read |-> <<"RCPT TO:", "<", "a", "@", "x", ">", CR, LF>>,
       addr |-> <<"a", "@", "x">>],
      [read |-> <<"RCPT TO:", "<", "s", "@", "x", ">", CR, LF>>,
       addr |-> <<"s", "@", "x">>] }

\* A line was read in the command loop and answered "250 OK".
Answered250(read) ==
    pc = "cmd" /\ line' = Some(read) /\ out' = <<REPLY_250>>

\* What a step of the session does to the recipients of the envelope.
RecipientsStep ==
    /\ pc = "closed" => envelope' = NoEnvelope
    /\ pc = "cmd" =>
          IF \E r \in RcptLines : Answered250(r.read)
          THEN \E r \in RcptLines :
                  /\ Answered250(r.read)
                  /\ envelope' = [envelope EXCEPT !.rcpt_to = Append(@, r.addr)]
          ELSE IF Answered250(<<"RSET", CR, LF>>)
          THEN envelope' = NoEnvelope
          ELSE envelope'.rcpt_to = envelope.rcpt_to
    /\ pc \in {"data", "reinject"} =>
          IF pc' = "cmd"
          THEN envelope' = NoEnvelope
          ELSE envelope'.rcpt_to = envelope.rcpt_to

\* C27: the recipients of the envelope are, in order, the addresses of the
\* RCPT TO commands answered "250 OK" since the connection started, since
\* the last RSET or since the last DATA transaction ended; no other command
\* touches them, and RSET and the end of a DATA transaction empty the whole
\* envelope.
C27_RecipientsFollowAcceptedRcpts == [][RecipientsStep]_vars

\* A second recipient was appended behind a different first one.
C27_Witness ==
    /\ pc = "cmd" /\ out = <<REPLY_250>>
    /\ line = Some(<<"RCPT TO:", "<", "s", "@", "x", ">", CR, LF>>)
    /\ envelope.rcpt_to = << <<"a", "@", "x">>, <<"s", "@", "x">> >>
    /\ envelope.mail_from # <<>>

(***************************************************************************)
(* C29                                                                     *)
(***************************************************************************)
\* The bodies that encode a valid packet stream.
ValidBodies ==
    { <<"0", "g", "E", "A">>, <<"0", "g", "A", "=">>,
      <<"w", "Q", "D", "S", "A", "Q", "A", "=">>,
      <<"w", "Q", "D", "S", "A", "A", "=", "=">> }

\* C29: the CRC24 line of an armor is optional: for a body that encodes a
\* valid packet stream, with no, one or two "=" of padding, the check of
\* the armor without CRC24 line gives what it gives with the line, and the
\* armor is accepted unless it is an outgoing one with a comment.
C29_Crc24IsOptional ==
    \A body \in ValidBodies, comment \in BOOLEAN, line_end \in BOOLEAN :
        (/\ gate_call # NoCall
         /\ mail = ArmorMail(ArmorText(body, FALSE, comment, line_end)))
        => /\ gate_result = check_encrypted(
                                ArmorMail(ArmorText(body, TRUE, comment, line_end)),
                                gate_call.outgoing)
           /\ ~(comment /\ gate_call.outgoing) => gate_result

(***************************************************************************)
(* C32                                                                     *)
(***************************************************************************)
\* C32: every command line that ends with CRLF and is read outside the DATA
\* phase gets exactly one reply line, written before the next line is read;
\* this holds also for a MAIL FROM or RCPT TO whose address cannot be
\* extracted.
C32_OneReplyPerCommand ==
    [][\A read \in SessionLines :
          (pc = "cmd" /\ line' = Some(read) /\ ends_with(read, CRLF))
          => Len(out') = 1]_vars

(***************************************************************************)
(* C31                                                                     *)
(***************************************************************************)
\* handle_connection waits in handle_data for the reinjection to return.
Reinjecting == pc = "reinject"

ConsumesToken(s) ==
    /\ checks' = Append(checks, [address |-> s, at |-> now, ok |-> TRUE])
    /\ s \in DOMAIN address_timestamps'
    /\ address_timestamps'[s] = Append(RecentSends(address_timestamps, s), now)

\* What a step of an outgoing session does to the sender of the envelope.
SenderStep ==
    /\ pc = "closed" => envelope'.mail_from = <<>>
    /\ (envelope'.mail_from # envelope.mail_from /\ envelope'.mail_from # <<>>)
          => (pc = "cmd" /\ ConsumesToken(envelope'.mail_from))
    /\ (pc # "reinject" /\ pc' = "reinject")
          => /\ handed'.mail_from = envelope.mail_from
             /\ envelope.mail_from # <<>>
             /\ envelope'.mail_from = envelope.mail_from
             /\ \E i \in 1..Len(checks) :
                   checks[i].address = envelope.mail_from /\ checks[i].ok
    /\ (pc = "reinject" /\ pc' # "reinject") => envelope'.mail_from = <<>>

\* C33: in outgoing mode a session cannot get around the rate limit by
\* being reused: the sender of an envelope is set only by a MAIL FROM that
\* consumed a token of that sender, it is what reinject_mail is handed, and
\* it is emptied when the reinjection ends, so every message reinjected for
\* a sender has a token of its own, consumed since the last transaction.
C33_EveryReinjectionHasAToken ==
    [][config.mode = "outgoing" => SenderStep]_vars

\* An outgoing session hands a message of u@x to reinject_mail after two
\* tokens of u@x have been consumed.
C33_Witness ==
    /\ config.mode = "outgoing" /\ pc = "reinject"
    /\ handed.mail_from = <<"u", "@", "x">>
    /\ Len(checks) = 2
    /\ \A i \in 1..2 : checks[i].address = <<"u", "@", "x">> /\ checks[i].ok

(***************************************************************************)
(* C34                                                                     *)
(***************************************************************************)
\* handle_data has been called for an envelope without recipients.
DataWithoutRecipients == verdict.fn # "none" /\ handed.rcpt_to = <<>>

\* The transport of the reinjection has been opened.
TransportOpened == pc = "reinject" \/ client.stage \notin {"none", "failed"}

\* C34 as stated: in both modes a DATA transaction without an accepted
\* RCPT TO is refused by the server or by check_data, so that reinject_mail
\* is not invoked for it, whatever the message is.
C34_CheckDataRefusesNoRecipients ==
    DataWithoutRecipients => ~verdict.res.ok

\* C34 as amended: in both modes no reinjection is started for an envelope
\* without recipients: the transaction is refused by check_data or, when
\* check_data lets it pass, by reinject_mail itself before the transport
\* is opened, and the client is sent the error.
C34_NoTransportWithoutRecipients ==
    /\ TransportOpened => handed.rcpt_to # <<>>
    /\ pc = "reinject" => envelope.rcpt_to # <<>>
    /\ DataWithoutRecipients
          => /\ client.sent = <<>> /\ ~client.accepted
             /\ pc = "cmd" /\ Len(out) = 1 /\ out # <<REPLY_250>>
             /\ verdict.res.ok => client.stage = "failed"

\* An encrypted message without recipients passed check_data and was
\* stopped in reinject_mail.
C34_Witness ==
    /\ DataWithoutRecipients /\ verdict.res.ok
    /\ client.stage = "failed" /\ client.sent = <<>>
    /\ out = <<reply_line(<<"Failed to create envelope: ", "reason">>)>>

(***************************************************************************)
(* C35                                                                     *)
(***************************************************************************)
\* Where bytes has a line that is "." alone: ".\r\n" at the start or
\* behind a CRLF.
DotLines(bytes) ==
    {i \in Occurrences(bytes, END_OF_DATA) :
        i = 1 \/ (i > 2 /\ SubSeq(bytes, i - 2, i - 1) = CRLF)}

\* bytes is empty or ends with CRLF, has no LF without a CR before it and
\* no line that is "." alone.
LinesOfMessage(bytes) ==
    /\ bytes = <<>> \/ ends_with(bytes, CRLF)
    /\ \A i \in 1..Len(bytes) : bytes[i] = LF => (i > 1 /\ bytes[i - 1] = CR)
    /\ DotLines(bytes) = {}

\* C35: the data of every envelope handed to check_data and to the
\* reinjection client is empty or made of lines that end with CRLF, with
\* no bare LF and no line that is "." alone; so in what the client writes
\* to the peer behind "DATA\r\n" the first line that is "." alone is the
\* terminator the client writes itself.
C35_DataIsWholeLines ==
    /\ DataHandled => LinesOfMessage(handed.data)
    /\ pc = "reinject" => LinesOfMessage(envelope.data)
    /\ client.stage = "end of DATA" =>
          LET body == BodySent(client.sent) IN
          /\ LinesOfMessage(body)
          /\ DotLines(body \o END_OF_DATA) = {Len(body) + 1}

\* A message whose only line is a "." between two CR, with its CRLF, has
\* been written to the peer.
C35_Witness ==
    /\ client.stage = "end of DATA"
    /\ handed.data = <<CR, ".", CR, LF>>
    /\ BodySent(client.sent) = handed.data

====
